---- MODULE Spec2Model ----
(***************************************************************************)
(* Shoplinkify backend: the social-post import pipeline, the Post store    *)
(* and the feed reads, modelled from src/routes/social.js,                 *)
(* src/routes/auth.js (the copy of the social router that still carries    *)
(* the TikTok import), src/unnamed/part_003 (public feed) and              *)
(* src/unnamed/part_005 (Post schema).                                     *)
(*                                                                         *)
(* Strings are sequences of tokens.  A token is an atomic piece of text;   *)
(* every pattern the code searches for (includes, split, regex literal)    *)
(* is a sequence of tokens, and the inputs are tokenised so that every     *)
(* occurrence of a pattern starts and ends on a token boundary.  Two       *)
(* strings are equal exactly when their token sequences are equal.         *)
(***************************************************************************)
EXTENDS Integers, Sequences, FiniteSets, TLC

\* ------------------------------------------------------------------------
\* Bounds of the model
\* ------------------------------------------------------------------------
\* number of Post documents ever created (ObjectIds are never reused)
MaxIds == 2

Users == {"u1", "u2"}
\* the connections requests arrive on; a connection carries one request at a time
Conns == {"k1", "k2"}
Platforms == {"instagram", "facebook", "youtube", "tiktok"}

\* JavaScript undefined / null / "" : all falsy, all modelled by the empty string
None == << >>
Truthy(s) == s # None

\* ------------------------------------------------------------------------
\* String primitives (String.prototype.includes, split, replace)
\* ------------------------------------------------------------------------
IsSubAt(s, pat, i) ==
  /\ i >= 1
  /\ i + Len(pat) - 1 <= Len(s)
  /\ \A k \in 1..Len(pat) : s[i + k - 1] = pat[k]

Includes(s, pat) == \E i \in 1..Len(s) : IsSubAt(s, pat, i)

\* position of the first occurrence of pat in s, 0 when there is none
IndexOf(s, pat) ==
  IF Includes(s, pat)
  THEN CHOOSE i \in 1..Len(s) :
         IsSubAt(s, pat, i) /\ \A j \in 1..(i - 1) : ~IsSubAt(s, pat, j)
  ELSE 0

\* position of the first token of s at or after position from that lies in stops,
\* Len(s) + 1 when there is none
FirstStop(s, from, stops) ==
  IF \E i \in from..Len(s) : s[i] \in stops
  THEN CHOOSE i \in from..Len(s) :
         s[i] \in stops /\ \A j \in from..(i - 1) : s[j] \notin stops
  ELSE Len(s) + 1

Slice(s, a, b) ==
  LET lo == IF a < 1 THEN 1 ELSE a
      hi == IF b > Len(s) THEN Len(s) ELSE b
  IN IF lo > hi THEN << >> ELSE SubSeq(s, lo, hi)

\* s.replace(pat, rep) with a string pattern: the first occurrence only
ReplaceFirst(s, pat, rep) ==
  LET i == IndexOf(s, pat)
  IN IF i = 0 THEN s
     ELSE Slice(s, 1, i - 1) \o rep \o Slice(s, i + Len(pat), Len(s))

\* s.split(pat)[1]: the text between the first and the second occurrence of
\* pat; None (undefined) when pat does not occur
SplitSecond(s, pat) ==
  LET i == IndexOf(s, pat)
  IN IF i = 0 THEN None
     ELSE LET rest == Slice(s, i + Len(pat), Len(s))
              j == IndexOf(rest, pat)
          IN IF j = 0 THEN rest ELSE Slice(rest, 1, j - 1)

\* s.split(/[stops]/)[0]: the text before the first character of the class
SplitFirst(s, stops) == Slice(s, 1, FirstStop(s, 1, stops) - 1)

Quotes == {"\"", "'"}
Schemes == {"https://", "http://"}

\* ------------------------------------------------------------------------
\* POST /youtube : video id extraction
\* ------------------------------------------------------------------------
\* /src=["'](https?:\/\/www\.youtube\.com\/embed\/[^"'?&]+)["']/i
\* the positions <<first, last>> of the captured group of the leftmost match
YtSrcMatches(url) ==
  { m \in (1..Len(url)) \X (1..Len(url)) :
      /\ m[1] >= 3
      /\ url[m[1] - 2] = "src="
      /\ url[m[1] - 1] \in Quotes
      /\ url[m[1]] \in Schemes
      /\ IsSubAt(url, <<"www.", "youtube", ".com", "/", "embed", "/">>, m[1] + 1)
      /\ m[2] >= m[1] + 7
      /\ m[2] + 1 <= Len(url)
      /\ \A k \in (m[1] + 7)..m[2] : url[k] \notin (Quotes \cup {"?", "&"})
      /\ url[m[2] + 1] \in Quotes }

YtSrcMatch(url) ==
  LET ms == YtSrcMatches(url)
  IN IF ms = {} THEN None
     ELSE LET m == CHOOSE x \in ms : \A y \in ms : x[1] <= y[1]
          IN SubSeq(url, m[1], m[2])

YtNormalizedUrl(url) ==
  IF Includes(url, <<"<iframe">>) /\ Truthy(YtSrcMatch(url))
  THEN YtSrcMatch(url)
  ELSE url

\* new URLSearchParams(query).get("v"): the value of the first parameter
\* named v; None (null) when there is none
SearchParamV(query) ==
  LET starts == { i \in 1..Len(query) :
                    /\ query[i] = "v="
                    /\ (i = 1 \/ query[i - 1] = "&") }
  IN IF starts = {} THEN None
     ELSE LET i == CHOOSE x \in starts : \A y \in starts : x <= y
          IN Slice(query, i + 1, FirstStop(query, i + 1, {"&"}) - 1)

\* an extraction that takes all that follows the marker of the url form
YtVideoIdToTheEnd(normalizedUrl) ==
  IF Includes(normalizedUrl, <<"youtube", ".com", "/", "watch", "?", "v=">>)
  THEN SplitSecond(normalizedUrl, <<"v=">>)
  ELSE IF Includes(normalizedUrl, <<"youtu.be", "/">>)
  THEN SplitSecond(normalizedUrl, <<"youtu.be", "/">>)
  ELSE IF Includes(normalizedUrl, <<"youtube", ".com", "/", "embed", "/">>)
  THEN SplitSecond(normalizedUrl, <<"youtube", ".com", "/", "embed", "/">>)
  ELSE None

\* lines 323-334: the video ID by url form
YtVideoId(normalizedUrl) ==
  IF Includes(normalizedUrl, <<"youtube", ".com", "/", "watch", "?", "v=">>)
  THEN SearchParamV(SplitSecond(normalizedUrl, <<"?">>))
  ELSE IF Includes(normalizedUrl, <<"youtu.be", "/">>)
  THEN SplitFirst(SplitSecond(normalizedUrl, <<"youtu.be", "/">>), {"?", "&"})
  ELSE IF Includes(normalizedUrl, <<"youtube", ".com", "/", "embed", "/">>)
  THEN SplitFirst(SplitSecond(normalizedUrl, <<"youtube", ".com", "/", "embed", "/">>),
                  {"?", "&", "/"})
  ELSE None

\* ------------------------------------------------------------------------
\* POST /instagram : URL normalization and validation
\* ------------------------------------------------------------------------
IgKinds == {"p", "reel", "tv"}

\* tokens made of [a-zA-Z0-9_-] characters only
WordTokens == {"SC1", "ABC123", "p", "reel", "tv", "embed", "someuser", "page1",
               "posts", "photos", "videos", "share", "v", "101"}

\* /https:\/\/www\.instagram\.com\/p\/[^\/'"]+/ : the leftmost match, None
\* when nothing matches
IgPermalinkMatch(s) ==
  LET pre == <<"https://", "www.", "instagram", ".com", "/", "p", "/">>
      stops == Quotes \cup {"/"}
      starts == { i \in 1..Len(s) :
                    /\ IsSubAt(s, pre, i)
                    /\ i + Len(pre) <= Len(s)
                    /\ s[i + Len(pre)] \notin stops }
  IN IF starts = {} THEN None
     ELSE LET i == CHOOSE x \in starts : \A y \in starts : x <= y
          IN Slice(s, i, FirstStop(s, i + Len(pre), stops) - 1)

\* /\/(p|reel|tv)\/([^\/\?]+)/ : group 2 of the leftmost match, None when
\* nothing matches
IgShortcode(s) ==
  LET stops == {"/", "?"}
      starts == { i \in 1..Len(s) :
                    /\ i + 3 <= Len(s)
                    /\ s[i] = "/"
                    /\ s[i + 1] \in IgKinds
                    /\ s[i + 2] = "/"
                    /\ s[i + 3] \notin stops }
  IN IF starts = {} THEN None
     ELSE LET i == CHOOSE x \in starts : \A y \in starts : x <= y
          IN Slice(s, i + 3, FirstStop(s, i + 3, stops) - 1)

IgIsEmbedCode(s) == Includes(s, <<"<blockquote">>) /\ Includes(s, <<"instagram-media">>)

\* lines 457-505: the URL taken from an embed snippet in the url field, or from
\* the embedCode field when the url does not look like an Instagram URL
IgFromEmbed(postUrl, embedCode) ==
  IF IgIsEmbedCode(postUrl)
  THEN (IF Truthy(IgPermalinkMatch(postUrl)) THEN IgPermalinkMatch(postUrl) ELSE postUrl)
  ELSE IF Truthy(embedCode) /\ IgIsEmbedCode(embedCode)
            /\ ~Includes(postUrl, <<"instagram", ".com">>)
            /\ Truthy(IgPermalinkMatch(embedCode))
  THEN IgPermalinkMatch(embedCode)
  ELSE postUrl

IgIsEmbedUrl(s) == Includes(s, <<"/", "embed">>) /\ Includes(s, <<"instagram", ".com">>)

\* lines 507-533: processedUrl, the URL that is fetched
IgProcessedUrl(postUrl, embedCode) ==
  LET s == IgFromEmbed(postUrl, embedCode)
  IN IF ~IgIsEmbedUrl(s) /\ Includes(s, <<"instagram", ".com">>)
     THEN (IF Truthy(IgShortcode(s))
           THEN <<"https://", "www.", "instagram", ".com", "/", "p", "/">>
                  \o IgShortcode(s) \o <<"/">>
           ELSE s)
     ELSE IF IgIsEmbedUrl(s)
     THEN ReplaceFirst(s, <<"/", "embed", "/">>, <<"/">>)
     ELSE s

\* /^https?:\/\/(www\.)?instagram\.com\/(p|reel|tv)\/[a-zA-Z0-9_-]+/
IgValid(s) ==
  /\ Len(s) >= 1
  /\ s[1] \in Schemes
  /\ LET k == IF Len(s) >= 2 /\ s[2] = "www." THEN 3 ELSE 2
     IN /\ k + 5 <= Len(s)
        /\ s[k] = "instagram"
        /\ s[k + 1] = ".com"
        /\ s[k + 2] = "/"
        /\ s[k + 3] \in IgKinds
        /\ s[k + 4] = "/"
        /\ s[k + 5] \in WordTokens

\* ------------------------------------------------------------------------
\* POST /instagram : image extraction from the fetched page
\* ------------------------------------------------------------------------
\* A fetched page, as far as the handler reads it:
\*   prop[t], name[t]  content of <meta property=t> / <meta name=t>, None if absent
\*   shared            window._sharedData: [found, where, resources, display_url]
\*   rx[k]             group 1 of the first match of the k-th fallback regex
\*   imgs              the <img> elements in document order: [src, width, height]
MetaTags == {"og:image:url", "og:image:secure_url", "twitter:image", "og:image",
             "article:image", "twitter:image:src", "image", "thumbnail",
             "instagram:image"}

\* line 704: contentTags, in order
ContentTags == <<"article:image", "og:image:url", "twitter:image:src", "image",
                 "thumbnail", "instagram:image">>

\* lines 655-659 and 725-730: isLikelyProfilePic / isTagProfilePic
IgMetaProfilePic(u) ==
  \/ Includes(u, <<"/", "profile_pic", "/">>)
  \/ Includes(u, <<"profile_images">>)
  \/ Includes(u, <<"/", "dp", "/">>)
  \/ (Includes(u, <<"instagram", ".com">>) /\ Includes(u, <<"s150x150">>))

\* lines 955-958: isLikelyProfilePic of the regex fallback
IgRegexProfilePic(u) ==
  \/ Includes(u, <<"/", "profile_pic", "/">>)
  \/ Includes(u, <<"profile_images">>)
  \/ Includes(u, <<"/", "dp", "/">>)

\* line 1042: finalProfileImagePatterns
FinalProfileImagePatterns ==
  { <<"/", "profile_pic", "/">>, <<"profile_images">>, <<"/", "profpic", "/">>,
    <<"/", "pp", "/">>, <<"/", "dp", "/">>, <<"s150x150">>,
    <<"/", "profile", "/">>, <<"/", "profil", "/">>, <<"avatar">>,
    <<".com", "/", "p", "/", "profile">> }

HasProfilePattern(u) == \E pat \in FinalProfileImagePatterns : Includes(u, pat)

\* s.replace(/\\/g, "") : every backslash removed
StripBackslashes(s) == SelectSeq(s, LAMBDA t : t # "\\")

\* the least index of sizes that holds the greatest size (Array.prototype.sort
\* is stable, so [0] of the descending order is the first of the largest)
FirstLargest(sizes) ==
  CHOOSE i \in 1..Len(sizes) :
    /\ \A j \in 1..Len(sizes) : sizes[j] <= sizes[i]
    /\ \A j \in 1..(i - 1) : sizes[j] < sizes[i]

\* lines 647-759: the meta-tag strategy; [imageUrl, method]
IgMetaStrategy(page) ==
  LET first ==
        IF Truthy(page.prop["og:image:url"]) THEN page.prop["og:image:url"]
        ELSE IF Truthy(page.prop["og:image:secure_url"]) THEN page.prop["og:image:secure_url"]
        ELSE IF Truthy(page.name["twitter:image"]) THEN page.name["twitter:image"]
        ELSE page.prop["og:image"]
      TagContent(k) ==
        IF Truthy(page.prop[ContentTags[k]]) THEN page.prop[ContentTags[k]]
        ELSE page.name[ContentTags[k]]
      better == { k \in 1..Len(ContentTags) :
                    Truthy(TagContent(k)) /\ ~IgMetaProfilePic(TagContent(k)) }
  IN IF ~Truthy(first) THEN [imageUrl |-> None, method |-> ""]
     ELSE IF ~IgMetaProfilePic(first) THEN [imageUrl |-> first, method |-> "og_image"]
     ELSE IF better # {}
          THEN [imageUrl |-> TagContent(CHOOSE k \in better : \A j \in better : k <= j),
                method |-> "meta_tag"]
          ELSE [imageUrl |-> first, method |-> "og_image_profile"]

\* lines 773-930: window._sharedData; display_resources sorted by area, else display_url
IgJsonStrategy(page) ==
  LET sh == page.shared
  IN IF ~sh.found \/ sh.where \notin {"PostPage", "ProfilePage"}
     THEN [imageUrl |-> None, method |-> ""]
     ELSE IF Len(sh.resources) > 0
     THEN [imageUrl |-> sh.resources[FirstLargest(
                            [i \in 1..Len(sh.resources) |->
                               sh.resources[i].config_width
                                 * sh.resources[i].config_height])].src,
           method |-> "json_display_resources"]
     ELSE IF Truthy(sh.display_url)
     THEN [imageUrl |-> sh.display_url, method |-> "json_display_url"]
     ELSE [imageUrl |-> None, method |-> ""]

\* lines 933-988: the regex fallback, first non-profile match in regex order
IgRegexStrategy(page) ==
  LET Potential(k) == StripBackslashes(page.rx[k])
      ok == { k \in 1..Len(page.rx) :
                Truthy(page.rx[k]) /\ ~IgRegexProfilePic(Potential(k)) }
  IN IF ok = {} THEN [imageUrl |-> None, method |-> ""]
     ELSE [imageUrl |-> Potential(CHOOSE k \in ok : \A j \in ok : k <= j),
           method |-> "display_url_regex"]

\* lines 647-1004: the cascade; imageUrl = None is the 404 of line 1000
IgCascade(page) ==
  LET m == IgMetaStrategy(page)
      j == IgJsonStrategy(page)
  IN IF Truthy(m.imageUrl) THEN m
     ELSE IF Truthy(j.imageUrl) THEN j
     ELSE IgRegexStrategy(page)

\* lines 1006-1009
FixProtocolRelative(u) ==
  IF Len(u) >= 1 /\ u[1] = "//" THEN <<"https://">> \o Tail(u) ELSE u

\* path segments and query parameters the clean-up regexes of lines 1015-1029 match
SegS == {"s150x150", "s640x640"}
SegP == {"p1080x1080"}
SegC == {"c0.135.1080.1080"}
SegE == {"e35"}
QSe == {"se=7"}
QSh == {"sh=1"}
QSw == {"sw=1"}
QQuality == {"quality=80"}
QNcHt == {"_nc_ht=a"}
QNcCat == {"_nc_cat=1"}
QIgshid == {"igshid=1"}
QNc == {"_nc_ht=a", "_nc_cat=1", "_nc_sid=2"}

\* s.replace(/\/SEG\//, "/") for a class of segments: the first match only
DropSegment(s, segs) ==
  LET hits == { i \in 1..Len(s) :
                  i + 2 <= Len(s) /\ s[i] = "/" /\ s[i + 1] \in segs /\ s[i + 2] = "/" }
  IN IF hits = {} THEN s
     ELSE LET i == CHOOSE x \in hits : \A y \in hits : x <= y
          IN Slice(s, 1, i) \o Slice(s, i + 3, Len(s))

\* s.replace(/[\?&]PARAM/, "") for a class of parameters: the first match only
DropParam(s, params) ==
  LET hits == { i \in 1..Len(s) :
                  i + 1 <= Len(s) /\ s[i] \in {"?", "&"} /\ s[i + 1] \in params }
  IN IF hits = {} THEN s
     ELSE LET i == CHOOSE x \in hits : \A y \in hits : x <= y
          IN Slice(s, 1, i - 1) \o Slice(s, i + 2, Len(s))

\* s.replace(/\?PARAM.*$/, "") for a class of parameters
DropQueryFrom(s, params) ==
  LET hits == { i \in 1..Len(s) :
                  i + 1 <= Len(s) /\ s[i] = "?" /\ s[i + 1] \in params }
  IN IF hits = {} THEN s
     ELSE LET i == CHOOSE x \in hits : \A y \in hits : x <= y
          IN Slice(s, 1, i - 1)

\* lines 1015-1029 (Instagram) and 1615-1629 (Facebook): the same fourteen replaces
CleanCropping(u) ==
  LET a1 == DropSegment(u, SegS)
      a2 == DropSegment(a1, SegC)
      a3 == DropSegment(a2, SegE)
      a4 == DropSegment(a3, SegS \cup SegP)
      a5 == DropSegment(a4, SegS \cup SegP)
      a6 == DropSegment(a5, SegP)
      b1 == DropParam(a6, QSe)
      b2 == DropParam(b1, QSh)
      b3 == DropParam(b2, QSw)
      b4 == DropParam(b3, QQuality)
      c1 == DropQueryFrom(b4, QNcHt)
      c2 == DropQueryFrom(c1, QNcCat)
      c3 == DropQueryFrom(c2, QIgshid)
  IN DropQueryFrom(c3, QNc)

\* lines 1031-1034: unicode escapes and backslashes
Unescape(s) ==
  LET One(t) == IF t = "\\u0026" THEN "&" ELSE IF t = "\\u003D" THEN "=" ELSE t
  IN StripBackslashes([i \in 1..Len(s) |-> One(s[i])])

\* lines 1069-1095: the <img> elements that may replace a profile image
IgCandidateImages(page) ==
  SelectSeq(page.imgs,
            LAMBDA img : /\ Truthy(img.src)
                         /\ ~HasProfilePattern(img.src)
                         /\ (\/ Includes(img.src, <<"cdn", "instagram">>)
                             \/ Includes(img.src, <<"fbcdn", ".net">>)))

\* lines 1040-1124: the final profile check with its emergency replacement
IgFinalCheck(page, r) ==
  LET cands == IgCandidateImages(page)
  IN IF HasProfilePattern(r.imageUrl) /\ Len(cands) > 0
     THEN [imageUrl |-> cands[FirstLargest([i \in 1..Len(cands) |->
                                             cands[i].width * cands[i].height])].src,
           method |-> "emergency_fallback"]
     ELSE r

\* lines 578-1130: the image the import selects; imageUrl = None when none is found
IgExtract(page) ==
  LET r == IgCascade(page)
  IN IF ~Truthy(r.imageUrl) THEN r
     ELSE IgFinalCheck(page,
            [imageUrl |-> Unescape(CleanCropping(FixProtocolRelative(r.imageUrl))),
             method |-> r.method])

\* ------------------------------------------------------------------------
\* POST /facebook : validation and image extraction
\* ------------------------------------------------------------------------
\* line 1420: the four accepted path shapes
FbValid(s) ==
  /\ Len(s) >= 1
  /\ s[1] \in Schemes
  /\ LET k == IF Len(s) >= 2 /\ s[2] = "www." THEN 3 ELSE 2
         At(i) == IF k + i <= Len(s) THEN s[k + i] ELSE ""
     IN /\ At(0) \in {"facebook", "fb"}
        /\ At(1) = ".com"
        /\ At(2) = "/"
        /\ \/ (At(3) \in WordTokens /\ At(4) = "/" /\ At(5) \in {"posts", "photos"}
               /\ At(6) = "/")
           \/ (At(3) = "share" /\ At(4) = "/" /\ At(5) \in {"p", "v"} /\ At(6) = "/"
               /\ At(7) \in WordTokens)
           \/ (At(3) \in WordTokens /\ At(4) = "/" /\ At(5) = "videos" /\ At(6) = "/"
               /\ At(7) \in {"101"})

FbIsVideoShareUrl(s) == Includes(s, <<"/", "share", "/", "v", "/">>)

\* A fetched Facebook page, as far as the handler reads it:
\*   ogImage    content of <meta property="og:image">, None if absent
\*   imgs       src of the <img> elements, in document order
\*   posters    poster of the <video> elements, in document order
\*   videoBg    background-image of the first [data-video-id] element that has one
\*   jsonLd     image of each JSON-LD script, in document order
\*   cdn        the matches of the fbcdn.net regex against the page text
FbExtractRaw(page, isVideo) ==
  LET cdnImgs == { i \in 1..Len(page.imgs) :
                     /\ Truthy(page.imgs[i])
                     /\ (\/ Includes(page.imgs[i], <<"scontent">>)
                         \/ Includes(page.imgs[i], <<"fbcdn">>)
                         \/ Includes(page.imgs[i], <<"facebook", ".com", "/", "images">>)) }
      posters == { i \in 1..Len(page.posters) : Truthy(page.posters[i]) }
      lds == { i \in 1..Len(page.jsonLd) : Truthy(page.jsonLd[i]) }
      pref == { i \in 1..Len(page.cdn) :
                  /\ ~Includes(page.cdn[i], <<"profile">>)
                  /\ ~Includes(page.cdn[i], <<"_s.">>)
                  /\ ~Includes(page.cdn[i], <<"emoji">>) }
      Min(S) == CHOOSE x \in S : \A y \in S : x <= y
      Max(S) == CHOOSE x \in S : \A y \in S : x >= y
  IN IF Truthy(page.ogImage)
     THEN [imageUrl |-> page.ogImage,
           method |-> IF isVideo THEN "og_image_video" ELSE "og_image"]
     ELSE IF cdnImgs # {}
     THEN [imageUrl |-> page.imgs[Min(cdnImgs)], method |-> "html_content"]
     ELSE IF isVideo /\ posters # {}
     THEN [imageUrl |-> page.posters[Min(posters)], method |-> "video_poster"]
     ELSE IF isVideo /\ Truthy(page.videoBg)
     THEN [imageUrl |-> page.videoBg, method |-> "video_container_bg"]
     ELSE IF lds # {}
     THEN [imageUrl |-> page.jsonLd[Max(lds)], method |-> "json_ld"]
     ELSE IF pref # {}
     THEN [imageUrl |-> page.cdn[Min(pref)], method |-> "fbcdn_regex_match"]
     ELSE IF Len(page.cdn) > 0
     THEN [imageUrl |-> page.cdn[1], method |-> "fbcdn_regex_first_match"]
     ELSE [imageUrl |-> None, method |-> ""]

\* lines 1464-1629: the image the import selects; imageUrl = None when none is found
FbExtract(page, isVideo) ==
  LET r == FbExtractRaw(page, isVideo)
  IN IF ~Truthy(r.imageUrl) THEN r
     ELSE [imageUrl |-> CleanCropping(FixProtocolRelative(r.imageUrl)),
           method |-> r.method]

\* ------------------------------------------------------------------------
\* Rehosting (download, uploadFile) and the static placeholders
\* ------------------------------------------------------------------------
\* line 1160: a download below this many bytes is rejected
MinImageBytes == 1000

\* secure_url returned by uploadFile
CloudUrl == <<"https://", "res", ".", "cloudinary", ".com", "/", "shoplinkify", "/", "up1.jpg">>
\* lines 1711 and 1769
FbLogo == <<"https://", "static", ".", "xx", ".", "fbcdn", ".net", "/", "rsrc.php", "/",
            "-PAXP-deijE.gif">>
\* src/routes/auth.js line 1370
TtLogo == <<"https://", "sf16-sg", ".", "tiktokcdn", ".com", "/", "obj", "/",
            "tiktok_logo.png">>

\* An outcome of the collaborators of one rehost:
\*   dl   the byte length of the downloaded image, -1 when the download throws
\*   up   whether uploadFile(buffer) succeeds
\*   dl2, up2  the same for the second attempt
DownloadOk(dl) == dl >= 0

\* cloudinaryImageUrl || imageUrl
OrElse(a, b) == IF Truthy(a) THEN a ELSE b

\* lines 1132-1273: Instagram; buffer upload, then upload by URL, then the URL itself
IgRehost(imageUrl, o) ==
  IF DownloadOk(o.dl) /\ ~(o.dl < MinImageBytes) /\ o.up THEN CloudUrl
  ELSE IF o.up2 THEN CloudUrl
  ELSE imageUrl

\* lines 1631-1745: Facebook
FbRehost(imageUrl, isVideo, ogImage, o) ==
  LET isFacebookCDNImage ==
        \/ Includes(imageUrl, <<"scontent">>)
        \/ Includes(imageUrl, <<"fbcdn">>)
        \/ Includes(imageUrl, <<"facebook", ".com">>)
  IN IF isFacebookCDNImage
     THEN IF DownloadOk(o.dl) /\ o.dl > MinImageBytes /\ o.up THEN CloudUrl
          ELSE IF isVideo
          THEN (IF Truthy(ogImage) /\ DownloadOk(o.dl2) /\ o.dl2 > MinImageBytes /\ o.up2
                THEN CloudUrl ELSE FbLogo)
          ELSE imageUrl
     ELSE IF DownloadOk(o.dl) /\ o.up THEN CloudUrl ELSE imageUrl

\* src/routes/auth.js lines 1189-1219 and 1307-1335: TikTok thumbnail
TtRehost(thumbnailUrl, o) ==
  IF ~Truthy(thumbnailUrl) THEN None
  ELSE IF DownloadOk(o.dl) /\ o.up THEN CloudUrl
  ELSE thumbnailUrl

\* The steps a rehost takes, in order: "buffer" (download, then upload of the
\* buffer), "url" (uploadFile fetches the remote URL), "preview" (download and
\* upload of the og:image of a video), and the step that ends it without an
\* upload: "original" (the extracted URL is kept) or "logo".
\* lines 1132-1273: Instagram
IgTiers(o) ==
  IF DownloadOk(o.dl) /\ ~(o.dl < MinImageBytes) /\ o.up THEN <<"buffer">>
  ELSE IF o.up2 THEN <<"buffer", "url">>
  ELSE <<"buffer", "url", "original">>

\* lines 1631-1745: Facebook
FbTiers(imageUrl, isVideo, ogImage, o) ==
  LET isFacebookCDNImage ==
        \/ Includes(imageUrl, <<"scontent">>)
        \/ Includes(imageUrl, <<"fbcdn">>)
        \/ Includes(imageUrl, <<"facebook", ".com">>)
  IN IF isFacebookCDNImage
     THEN IF DownloadOk(o.dl) /\ o.dl > MinImageBytes /\ o.up THEN <<"buffer">>
          ELSE IF isVideo
          THEN (IF Truthy(ogImage) /\ DownloadOk(o.dl2) /\ o.dl2 > MinImageBytes /\ o.up2
                THEN <<"buffer", "preview">>
                ELSE IF Truthy(ogImage) THEN <<"buffer", "preview", "logo">>
                ELSE <<"buffer", "logo">>)
          ELSE <<"buffer", "original">>
     ELSE IF DownloadOk(o.dl) /\ o.up THEN <<"buffer">> ELSE <<"buffer", "original">>

\* src/routes/auth.js lines 1189-1219: TikTok thumbnail
TtTiers(thumbnailUrl, o) ==
  IF ~Truthy(thumbnailUrl) THEN << >>
  ELSE IF DownloadOk(o.dl) /\ o.up THEN <<"buffer">>
  ELSE <<"buffer", "original">>

\* The byte lengths of the buffers a rehost hands to uploadFile, in order.
\* lines 1160-1162 and 1234-1237: Instagram
IgUploaded(o) ==
  IF DownloadOk(o.dl) /\ ~(o.dl < MinImageBytes) THEN <<o.dl>> ELSE << >>

\* lines 1660-1670, 1695-1705 and 1737-1740: Facebook
FbUploaded(imageUrl, isVideo, ogImage, o) ==
  LET isFacebookCDNImage ==
        \/ Includes(imageUrl, <<"scontent">>)
        \/ Includes(imageUrl, <<"fbcdn">>)
        \/ Includes(imageUrl, <<"facebook", ".com">>)
      first == IF DownloadOk(o.dl) /\ o.dl > MinImageBytes THEN <<o.dl>> ELSE << >>
  IN IF isFacebookCDNImage
     THEN IF first # << >> /\ o.up THEN first
          ELSE IF isVideo /\ Truthy(ogImage) /\ DownloadOk(o.dl2) /\ o.dl2 > MinImageBytes
          THEN first \o <<o.dl2>>
          ELSE first
     ELSE IF DownloadOk(o.dl) THEN <<o.dl>> ELSE << >>

\* src/routes/auth.js lines 1192-1205: TikTok thumbnail
TtUploaded(thumbnailUrl, o) ==
  IF Truthy(thumbnailUrl) /\ DownloadOk(o.dl) THEN <<o.dl>> ELSE << >>

\* ------------------------------------------------------------------------
\* Requests and collaborator answers the model draws from
\* ------------------------------------------------------------------------
Vid == "ABC123"
YtWatch == <<"https://", "www.", "youtube", ".com", "/", "watch", "?", "v=", Vid>>
YtShort == <<"https://", "youtu.be", "/", Vid>>
YtIframe == <<"<iframe", " ", "src=", "\"", "https://", "www.", "youtube", ".com", "/",
              "embed", "/", Vid, "\"", ">">>
YtBad == <<"https://", "www.", "youtube", ".com", "/", "channel">>
\* snippet.thumbnails.high.url of the videos API
YtThumb == <<"https://", "i", ".", "ytimg", ".com", "/", "vi", "/", Vid, "/", "hqdefault.jpg">>

IgP == <<"https://", "www.", "instagram", ".com", "/", "p", "/", "SC1", "/">>
IgReel == <<"https://", "www.", "instagram", ".com", "/", "reel", "/", "SC1", "/">>
IgSnippet == <<"<blockquote", " ", "class=", "\"", "instagram-media", "\"", " ",
               "data-instgrm-permalink=", "\"", "https://", "www.", "instagram", ".com",
               "/", "p", "/", "SC1", "/", "?", "utm_source=ig_embed", "\"", ">">>
IgBad == <<"https://", "www.", "instagram", ".com", "/", "someuser", "/">>

FbPost == <<"https://", "www.", "facebook", ".com", "/", "page1", "/", "posts", "/", "101">>
FbShareV == <<"https://", "www.", "facebook", ".com", "/", "share", "/", "v", "/", "SC1", "/">>
FbBad == <<"https://", "www.", "facebook", ".com", "/", "page1">>

TtVideo == <<"https://", "www.", "tiktok", ".com", "/", "@someuser", "/", "video", "/", "101">>
TtBad == <<"https://", "www.", "example", ".com", "/", "video", "/", "101">>

\* image URLs found on pages
ImgContent == <<"https://", "scontent", ".", "cdn", "instagram", ".com", "/", "v", "/",
                "photo.jpg">>
ImgProfile == <<"https://", "scontent", ".", "cdn", "instagram", ".com", "/", "profile_pic",
                "/", "me.jpg">>
ImgThumb == <<"https://", "scontent", ".", "cdn", "instagram", ".com", "/", "s150x150", "/",
              "me.jpg">>
FbImg == <<"https://", "scontent", ".", "xx", ".", "fbcdn", ".net", "/", "v", "/",
           "photo_n.jpg">>
TtCover == <<"https://", "p16-sign", ".", "tiktokcdn", ".com", "/", "obj", "/", "cover.jpg">>

NoTags == [t \in MetaTags |-> None]
NoShared == [found |-> FALSE, where |-> "", resources |-> << >>, display_url |-> None]
NoRx == <<None, None, None, None>>
IgEmptyPage == [fetched |-> TRUE, prop |-> NoTags, name |-> NoTags, shared |-> NoShared,
                rx |-> NoRx, imgs |-> << >>]
IgFetchError == [IgEmptyPage EXCEPT !.fetched = FALSE]
IgPageWith(tag, u) == [IgEmptyPage EXCEPT !.prop = [NoTags EXCEPT ![tag] = u]]

FbEmptyPage == [fetched |-> TRUE, ogImage |-> None, imgs |-> << >>, posters |-> << >>,
                videoBg |-> None, jsonLd |-> << >>, cdn |-> << >>]
FbFetchError == [FbEmptyPage EXCEPT !.fetched = FALSE]

\* the playback URL (wmplay) the helper API hands out at import time
TtPlay == <<"https://", "v16", ".", "tiktokcdn", ".com", "/", "video", "/", "play1.mp4">>

\* the TikTok helper API: the call throws, answers without data, or answers
\* with data whose origin_cover is cover
TtHelperError == [ok |-> FALSE, data |-> FALSE, cover |-> None, wmplay |-> None]
TtHelperNoData == [ok |-> TRUE, data |-> FALSE, cover |-> None, wmplay |-> None]
TtHelperData(cover) == [ok |-> TRUE, data |-> TRUE, cover |-> cover, wmplay |-> TtPlay]
\* the TikTok page: the fetch throws, or the page carries og:image = image
TtOgError == [ok |-> FALSE, image |-> None]
TtOgPage(image) == [ok |-> TRUE, image |-> image]

AllOk == [dl |-> 20000, up |-> TRUE, dl2 |-> 20000, up2 |-> TRUE]
TooSmall == [dl |-> 999, up |-> TRUE, dl2 |-> 999, up2 |-> FALSE]
AllFail == [dl |-> -1, up |-> FALSE, dl2 |-> -1, up2 |-> FALSE]

\* ------------------------------------------------------------------------
\* What a handler decides before it touches the Post collection
\* ------------------------------------------------------------------------
\* the fields of a Post document the handlers set and later read
Doc(platform, url, thumbnailUrl, imageUrl, videoId) ==
  [platform |-> platform, url |-> url, thumbnailUrl |-> thumbnailUrl,
   imageUrl |-> imageUrl, videoId |-> videoId, videoPath |-> None]

NoDoc == Doc("", None, None, None, None)

\* res.status(status).json({message}) without a Post.create
Reply(status, message) ==
  [kind |-> "reply", status |-> status, message |-> message, stage |-> "",
   method |-> "", doc |-> NoDoc, fetched |-> FALSE]

\* the handler goes on to Post.create(doc)
Create(stage, method, doc) ==
  [kind |-> "create", status |-> 0, message |-> "", stage |-> stage,
   method |-> method, doc |-> doc, fetched |-> FALSE]

\* the handler has sent a request to a remote host (axios.get) on its way to
\* this outcome
Fetched(plan) == [plan EXCEPT !.fetched = TRUE]

\* a handler that stores a post with a stand-in thumbnail when the API fails
YtPlanWithPlaceholder(url, apiKey, videoApi, channelApi) ==
  LET normalizedUrl == YtNormalizedUrl(url)
      videoId == YtVideoId(normalizedUrl)
  IN IF ~Truthy(url)
     THEN Reply(400, "YouTube URL is required in the request body")
     ELSE IF ~Truthy(videoId)
     THEN Reply(400, "Could not extract YouTube video ID from the provided URL")
     ELSE IF ~apiKey
     THEN Reply(500, "YouTube API key is not configured")
     ELSE IF videoApi # "ok" \/ channelApi # "ok"
     THEN Fetched(Create("main", "", Doc("youtube", normalizedUrl, None, None, videoId)))
     ELSE Fetched(Create("main", "", Doc("youtube", normalizedUrl, YtThumb, None, videoId)))

\* lines 297-403: POST /youtube up to Post.create
YtPlan(url, apiKey, videoApi, channelApi) ==
  LET normalizedUrl == YtNormalizedUrl(url)
      videoId == YtVideoId(normalizedUrl)
  IN IF ~Truthy(url)
     THEN Reply(400, "YouTube URL is required in the request body")
     ELSE IF ~Truthy(videoId)
     THEN Reply(400, "Could not extract YouTube video ID from the provided URL")
     ELSE IF ~apiKey
     THEN Reply(500, "YouTube API key is not configured")
     ELSE IF videoApi # "ok" \/ channelApi # "ok"
     THEN Fetched(Reply(500, "Error fetching YouTube data"))
     ELSE Fetched(Create("main", "", Doc("youtube", normalizedUrl, YtThumb, None, videoId)))

\* lines 443-1289: POST /instagram up to Post.create
IgPlan(postUrl, embedCode, page, o) ==
  LET processedUrl == IgProcessedUrl(postUrl, embedCode)
  IN IF ~Truthy(postUrl)
     THEN Reply(400, "Post URL is required in the request body")
     ELSE IF ~IgValid(processedUrl)
     THEN Reply(400, "Invalid Instagram URL. Must be a post, reel, or TV URL")
     ELSE IF ~page.fetched
     THEN Fetched(Reply(404, "Error accessing Instagram post. It may be private or not publicly accessible."))
     ELSE LET r == IgExtract(page)
          IN IF ~Truthy(r.imageUrl)
             THEN Fetched(Reply(404, "Could not find image for the Instagram post"))
             ELSE Fetched(Create("main", r.method,
                                 Doc("instagram", postUrl, None,
                                     OrElse(IgRehost(r.imageUrl, o), r.imageUrl), None)))

\* lines 1769-1780: the document of the catch block
FbFallbackDoc(postUrl) == Doc("facebook", postUrl, None, FbLogo, None)

\* a handler that fetches the page before it looks at the shape of the url
FbPlanFetchesFirst(postUrl, page, o) ==
  LET isVideo == FbIsVideoShareUrl(postUrl)
  IN IF ~Truthy(postUrl)
     THEN Reply(400, "Post URL is required in the request body")
     ELSE IF ~FbValid(postUrl)
     THEN Fetched(Reply(400, "Invalid Facebook URL. Must be a post, photo, video, or share URL"))
     ELSE IF ~page.fetched
     THEN Fetched(Create("fallback", "fallback_logo", FbFallbackDoc(postUrl)))
     ELSE LET r == FbExtract(page, isVideo)
          IN IF ~Truthy(r.imageUrl)
             THEN Fetched(Reply(404, "Could not find image for the Facebook post"))
             ELSE Fetched(Create("main", r.method,
                                 Doc("facebook", postUrl, None,
                                     OrElse(FbRehost(r.imageUrl, isVideo, page.ogImage, o),
                                            r.imageUrl), None)))

\* lines 1407-1755: POST /facebook up to the first Post.create
FbPlan(postUrl, page, o) ==
  LET isVideo == FbIsVideoShareUrl(postUrl)
  IN IF ~Truthy(postUrl)
     THEN Reply(400, "Post URL is required in the request body")
     ELSE IF ~FbValid(postUrl)
     THEN Reply(400, "Invalid Facebook URL. Must be a post, photo, video, or share URL")
     ELSE IF ~page.fetched
     THEN Fetched(Create("fallback", "fallback_logo", FbFallbackDoc(postUrl)))
     ELSE LET r == FbExtract(page, isVideo)
          IN IF ~Truthy(r.imageUrl)
             THEN Fetched(Reply(404, "Could not find image for the Facebook post"))
             ELSE Fetched(Create("main", r.method,
                                 Doc("facebook", postUrl, None,
                                     OrElse(FbRehost(r.imageUrl, isVideo, page.ogImage, o),
                                            r.imageUrl), None)))

\* a placeholder document that carries no image
TtLogoDocWithoutImage(videoUrl) == Doc("tiktok", videoUrl, None, None, None)

\* src/routes/auth.js lines 1369-1379: the placeholder document
TtLogoDoc(videoUrl) == Doc("tiktok", videoUrl, TtLogo, None, None)

\* src/routes/auth.js lines 1286-1379: the Open Graph fallback up to its
\* Post.create
TtOgPlan(videoUrl, og, o) ==
  IF og.ok /\ Truthy(og.image)
  THEN Fetched(Create("og", "opengraph",
                      Doc("tiktok", videoUrl, OrElse(TtRehost(og.image, o), og.image),
                          None, None)))
  ELSE Fetched(Create("logo", "fallback_logo", TtLogoDoc(videoUrl)))

\* a handler that passes a failure of the helper API on to the caller
TtPlanPropagatesHelperFailure(videoUrl, helper, og, o) ==
  IF ~Truthy(videoUrl)
  THEN Reply(400, "Video URL is required in the request body")
  ELSE IF ~Includes(videoUrl, <<"tiktok", ".com">>)
  THEN Reply(400, "Invalid TikTok URL. Must be a TikTok video URL")
  ELSE IF ~helper.ok \/ ~helper.data
  THEN Fetched(Reply(500, "Error processing TikTok video"))
  ELSE Fetched(Create("primary", "tikwm_api_simplified",
                      [Doc("tiktok", videoUrl, OrElse(TtRehost(helper.cover, o), helper.cover),
                           None, <<"101">>) EXCEPT !.videoPath = helper.wmplay]))

\* src/routes/auth.js lines 1135-1264: POST /tiktok up to its first Post.create
TtPlan(videoUrl, helper, og, o) ==
  IF ~Truthy(videoUrl)
  THEN Reply(400, "Video URL is required in the request body")
  ELSE IF ~Includes(videoUrl, <<"tiktok", ".com">>)
  THEN Reply(400, "Invalid TikTok URL. Must be a TikTok video URL")
  ELSE IF ~helper.ok \/ ~helper.data
  THEN TtOgPlan(videoUrl, og, o)
  ELSE Fetched(Create("primary", "tikwm_api_simplified",
                      [Doc("tiktok", videoUrl, OrElse(TtRehost(helper.cover, o), helper.cover),
                           None, <<"101">>) EXCEPT !.videoPath = helper.wmplay]))

\* ------------------------------------------------------------------------
\* State
\* ------------------------------------------------------------------------
VARIABLES
  posts,          \* the Post collection: a set of documents
  nextId,         \* the next ObjectId the store hands out
  now,            \* Date.now() at the latest Post.create
  users,          \* the User collection: selectedPlatforms and feedSettings per user
  youtubeApiKey,  \* whether process.env.YOUTUBE_API_KEY is set
  inflight,       \* per connection: the import request awaiting its Post.create
  reads,          \* per connection: the feed request awaiting its Post.find
  resp,           \* the latest response sent
  page,           \* an Instagram page handed to the extraction cascade
  extracted,      \* what the cascade selected from page
  imageCache,     \* per router: the module-level imageCache Map of the image proxy
  proxying,       \* per connection: the image proxy request and what it has done
  clicks,         \* the Click collection: a set of documents
  served,         \* per router and url: when the proxy last served its bytes, -1 if never
  retry,          \* a call of retryWithBackoff: its arguments and its progress
  rehost,         \* a rehost of an extracted image: its inputs and its result
  outbound,       \* whether the latest import handler to start has sent a request to a remote host
  toggling,       \* per connection: the toggle request that holds a loaded user document
  resetting,      \* per connection: the reset-password request that holds a loaded user document
  hashing         \* whether the pre-save hook of the latest user.save() went on to bcrypt

\* the state of the Post store, the users and the import and feed requests
storeVars == <<posts, nextId, now, users, youtubeApiKey, inflight, reads, page, extracted>>
\* the state of the image proxy, the clicks and the two helpers
\* the reset-password requests under way and the trace of the pre-save hook
accountVars == <<resetting, hashing>>
auxVars == <<imageCache, proxying, served, clicks, retry, rehost, outbound, toggling,
             resetting, hashing>>

vars == <<posts, nextId, now, users, youtubeApiKey, inflight, reads, resp, page, extracted,
          imageCache, proxying, served, clicks, retry, rehost, outbound, toggling,
          resetting, hashing>>

\* parseInt of a decimal numeral
ParseInt(str) == CHOOSE n \in 0..15 : ToString(n) = str

\* src/config/proxy.js lines 77-114: the defaults of a new user
\* bcrypt.hash(password, salt): the stored form of a password
Hashed(password) == <<"bcrypt", password>>

\* crypto.createHash("sha256").update(token).digest("hex")
Sha256(token) == <<"sha256">> \o token

\* src/config/proxy.js lines 71-114: a user as registration stores it; issued
\* counts the reset tokens crypto.randomBytes has produced for the user, and
\* redeemed is the history of the tokens that have completed a reset
NewUser == [selectedPlatforms |-> [p \in Platforms |-> TRUE],
            layout |-> "Grid", postsCount |-> "6",
            password |-> Hashed("secret0"), resetPasswordToken |-> None,
            resetPasswordExpire |-> 0, issued |-> 0, redeemed |-> {}]

\* the store's duplicate key error message, passed on as error: error.message
DuplicateKey == "E11000 duplicate key error"

NoResp == [op |-> "", status |-> 0, message |-> "", image |-> None, error |-> "",
           posts |-> << >>]

\* res.status(status).json({...}): the fields of the body the model keeps
Respond(op, status, message, image, error, list) ==
  [op |-> op, status |-> status, message |-> message, image |-> image,
   error |-> error, posts |-> list]

NotExtracted == [imageUrl |-> None, method |-> "pending"]

\* a connection with no import request, and one with no feed request
Idle == [user |-> "", stage |-> "idle", method |-> "", doc |-> NoDoc]
NoRead == [op |-> "", user |-> "", platforms |-> {}, postsCount |-> "", count |-> ""]
Free(k) == inflight[k] = Idle /\ reads[k] = NoRead

\* the two routers that serve GET /proxy/image, each with an imageCache of its own
Routers == {"auth", "social"}

\* image URLs asked of the proxy: one per host the handler tells apart
PxInstagram == <<"https://", "scontent", ".", "cdn", "instagram", ".com", "/", "v", "/", "photo.jpg">>
PxFacebook == <<"https://", "scontent", ".", "xx", ".", "fbcdn", ".net", "/", "v", "/", "fb.jpg">>
PxTikTok == <<"https://", "p16", ".", "tiktok", ".com", "/", "obj", "/", "cover.jpg">>
PxOther == <<"https://", "i", ".", "ytimg", ".com", "/", "vi", "/", "hq.jpg">>
ProxyUrls == {PxInstagram, PxFacebook, PxTikTok, PxOther}

\* imageCache.get(url) of a url the Map does not hold
NotCached == [imageUrl |-> None, timestamp |-> -1]

\* a connection with no image proxy request
NoProxy == [router |-> "", url |-> None, stage |-> "idle", primary |-> 0, retried |-> 0,
            fetches |-> 0]

\* no call of retryWithBackoff, no rehost
NoRetry == [maxRetries |-> 0, initialDelay |-> 0, outcomes |-> << >>, retries |-> 0,
            calls |-> 0, waits |-> << >>, pc |-> "idle", result |-> 0]
NoRehost == [platform |-> "", imageUrl |-> None, isVideo |-> FALSE, ogImage |-> None,
             o |-> AllOk, result |-> None, tiers |-> << >>, uploaded |-> << >>,
             done |-> FALSE]

\* the image proxy at process start: an empty Map in each router
ProxyInit ==
  /\ imageCache = [r \in Routers |-> [u \in ProxyUrls |-> NotCached]]
  /\ proxying = [k \in Conns |-> NoProxy]
  /\ served = [r \in Routers |-> [u \in ProxyUrls |-> -1]]

\* no reset-password request holds a user document
NoReset == [user |-> "", token |-> None, password |-> ""]

\* no toggle request holds a user document
NoToggle == [user |-> "", platform |-> "", loaded |-> FALSE]

\* the image proxy, the clicks and the helpers at process start
AuxInit ==
  /\ ProxyInit
  /\ clicks = {}
  /\ retry = NoRetry
  /\ rehost = NoRehost
  /\ outbound = FALSE
  /\ toggling = [k \in Conns |-> NoToggle]
  /\ resetting = [k \in Conns |-> NoReset]
  /\ hashing = FALSE

StoreInit(apiKeys) ==
  /\ posts = {}
  /\ nextId = 1
  /\ now = 0
  /\ users = [u \in Users |-> NewUser]
  /\ youtubeApiKey \in apiKeys
  /\ inflight = [k \in Conns |-> Idle]
  /\ reads = [k \in Conns |-> NoRead]
  /\ resp = NoResp
  /\ page = IgEmptyPage
  /\ extracted = NotExtracted

InitWith(apiKeys) == StoreInit(apiKeys) /\ AuxInit

Init == InitWith({TRUE})

\* ------------------------------------------------------------------------
\* The Post collection
\* ------------------------------------------------------------------------
\* src/unnamed/part_005 line 63: the unique index on {user, url} rejects the insert
UniqueIndexRejectsNever(u, url) == FALSE

UniqueIndexRejects(u, url) == \E p \in posts : p.user = u /\ p.url = url

\* src/unnamed/part_005 lines 3-60: the document Post.create stores
NewPost(u, doc, id, t) ==
  [id |-> id, user |-> u, platform |-> doc.platform, url |-> doc.url,
   thumbnailUrl |-> doc.thumbnailUrl, imageUrl |-> doc.imageUrl,
   videoId |-> doc.videoId, videoPath |-> doc.videoPath, selected |-> TRUE, addedAt |-> t,
   title |-> None, description |-> None, productLink |-> None]

\* post.thumbnailUrl || post.imageUrl
PostImage(p) == OrElse(p.thumbnailUrl, p.imageUrl)

\* ------------------------------------------------------------------------
\* Import handlers: the part before Post.create
\* ------------------------------------------------------------------------
\* a handler that turns an import down when the same user has the url in
\* flight on another connection
BeginShortCircuits(k, op, u, plan) ==
  /\ Free(k)
  /\ IF plan.kind = "reply"
     THEN /\ resp' = Respond(op, plan.status, plan.message, None, "", << >>)
          /\ UNCHANGED inflight
     ELSE IF \E j \in Conns : inflight[j].user = u /\ inflight[j].doc.url = plan.doc.url
     THEN /\ resp' = Respond(op, 409, "Import already in progress", None, "", << >>)
          /\ UNCHANGED inflight
     ELSE /\ inflight' = [inflight EXCEPT ![k] = [user |-> u, stage |-> plan.stage,
                                                  method |-> plan.method, doc |-> plan.doc]]
          /\ UNCHANGED resp
  /\ outbound' = plan.fetched
  /\ UNCHANGED <<posts, nextId, now, users, youtubeApiKey, reads, page, extracted,
                 imageCache, proxying, served, clicks, retry, rehost, toggling, accountVars>>

\* a handler either answers at once or awaits its Post.create
Begin(k, op, u, plan) ==
  /\ Free(k)
  /\ IF plan.kind = "reply"
     THEN /\ resp' = Respond(op, plan.status, plan.message, None, "", << >>)
          /\ UNCHANGED inflight
     ELSE /\ inflight' = [inflight EXCEPT ![k] = [user |-> u, stage |-> plan.stage,
                                                  method |-> plan.method, doc |-> plan.doc]]
          /\ UNCHANGED resp
  /\ outbound' = plan.fetched
  /\ UNCHANGED <<posts, nextId, now, users, youtubeApiKey, reads, page, extracted,
                 imageCache, proxying, served, clicks, retry, rehost, toggling, accountVars>>

ImportYouTube(k, u, url, videoApi, channelApi) ==
  Begin(k, "youtube", u, YtPlan(url, youtubeApiKey, videoApi, channelApi))

ImportInstagram(k, u, url, embedCode, pg, o) ==
  Begin(k, "instagram", u, IgPlan(url, embedCode, pg, o))

ImportFacebook(k, u, url, pg, o) ==
  Begin(k, "facebook", u, FbPlan(url, pg, o))

ImportTikTok(k, u, url, helper, og, o) ==
  Begin(k, "tiktok", u, TtPlan(url, helper, og, o))

\* ------------------------------------------------------------------------
\* Import handlers: Post.create and what follows it
\* ------------------------------------------------------------------------
\* the message of the success response of each Post.create
CreatedMessage(platform, stage) ==
  CASE platform = "youtube" -> "YouTube video added successfully"
    [] platform = "instagram" -> "Instagram post image added successfully"
    [] platform = "facebook" /\ stage = "main" -> "Facebook post image added successfully"
    [] platform = "facebook" /\ stage = "fallback" -> "Facebook post added with fallback image"
    [] platform = "tiktok" /\ stage = "primary" -> "TikTok video added successfully"
    [] platform = "tiktok" /\ stage = "og" -> "TikTok video added successfully with OG tags"
    [] platform = "tiktok" /\ stage = "logo" -> "TikTok video added with fallback image"

\* Post.create succeeds: the document is stored and the handler answers 200
PersistCreated(k, maxIds, ticks) ==
  LET r == inflight[k]
  IN /\ r # Idle
     /\ ~UniqueIndexRejects(r.user, r.doc.url)
     /\ nextId <= maxIds
     /\ \E d \in ticks :
          /\ now' = now + d
          /\ posts' = posts \cup {NewPost(r.user, r.doc, nextId, now + d)}
     /\ nextId' = nextId + 1
     /\ inflight' = [inflight EXCEPT ![k] = Idle]
     /\ resp' = Respond(r.doc.platform, 200, CreatedMessage(r.doc.platform, r.stage),
                        OrElse(r.doc.thumbnailUrl, r.doc.imageUrl), "", << >>)
     /\ UNCHANGED <<users, youtubeApiKey, reads, page, extracted, auxVars>>

\* a handler that answers a rejected Post.create as it answers a created one
AfterRejectedAnswersCreated(r, og, o) ==
  Reply(200, CreatedMessage(r.doc.platform, r.stage))

\* what the catch blocks do with a rejected Post.create: answer with an error
\* (kind "reply") or go on to the next Post.create (kind "create")
AfterRejected(r, og, o) ==
  CASE r.doc.platform = "youtube" -> Reply(500, "Error fetching YouTube data")
    [] r.doc.platform = "instagram" ->
         Reply(404, "Error accessing Instagram post. It may be private or not publicly accessible.")
    [] r.doc.platform = "facebook" /\ r.stage = "main" ->
         Create("fallback", "fallback_logo", FbFallbackDoc(r.doc.url))
    [] r.doc.platform = "facebook" /\ r.stage = "fallback" ->
         Reply(500, "Error creating Facebook post")
    [] r.doc.platform = "tiktok" /\ r.stage = "primary" -> TtOgPlan(r.doc.url, og, o)
    [] r.doc.platform = "tiktok" /\ r.stage = "og" ->
         Create("logo", "fallback_logo", TtLogoDoc(r.doc.url))
    [] r.doc.platform = "tiktok" /\ r.stage = "logo" ->
         Reply(500, "Error processing TikTok video")

\* Post.create is rejected by the unique index
PersistRejected(k, og, o) ==
  LET r == inflight[k]
      next == AfterRejected(r, og, o)
  IN /\ r # Idle
     /\ UniqueIndexRejects(r.user, r.doc.url)
     /\ IF next.kind = "reply"
        THEN /\ resp' = Respond(r.doc.platform, next.status, next.message, None,
                                DuplicateKey, << >>)
             /\ inflight' = [inflight EXCEPT ![k] = Idle]
        ELSE /\ inflight' = [inflight EXCEPT ![k] =
                               [user |-> r.user, stage |-> next.stage,
                                method |-> next.method, doc |-> next.doc]]
             /\ UNCHANGED resp
     /\ UNCHANGED <<posts, nextId, now, users, youtubeApiKey, reads, page, extracted, auxVars>>

\* ------------------------------------------------------------------------
\* Requests on stored posts
\* ------------------------------------------------------------------------
ById(id) == {p \in posts : p.id = id}

Plain(op, status, message) == Respond(op, status, message, None, "", << >>)

\* a delete that looks the post up by its id alone
DeletePostOfAnyone(u, id) ==
  /\ IF ById(id) = {}
     THEN /\ resp' = Plain("delete", 404, "Post not found or unauthorized")
          /\ UNCHANGED posts
     ELSE /\ posts' = posts \ ById(id)
          /\ resp' = Plain("delete", 200, "Post deleted successfully")
  /\ UNCHANGED <<nextId, now, users, youtubeApiKey, inflight, reads, page, extracted, auxVars>>

\* lines 2193-2229: DELETE /post/:postId
DeletePost(u, id) ==
  LET found == {p \in ById(id) : p.user = u}
  IN /\ IF found = {}
        THEN /\ resp' = Plain("delete", 404, "Post not found or unauthorized")
             /\ UNCHANGED posts
        ELSE /\ posts' = posts \ found
             /\ resp' = Plain("delete", 200, "Post deleted successfully")
     /\ UNCHANGED <<nextId, now, users, youtubeApiKey, inflight, reads, page, extracted, auxVars>>

\* lines 2232-2268: POST /select; findByIdAndUpdate does not filter on the user
SelectPost(u, id) ==
  /\ IF ById(id) = {}
     THEN /\ resp' = Plain("select", 404, "Post not found")
          /\ UNCHANGED posts
     ELSE /\ posts' = {IF p.id = id THEN [p EXCEPT !.selected = TRUE] ELSE p : p \in posts}
          /\ resp' = Plain("select", 200, "Post updated successfully")
  /\ UNCHANGED <<nextId, now, users, youtubeApiKey, inflight, reads, page, extracted, auxVars>>

\* lines 2668-2710: POST /deselect
DeselectPost(u, id) ==
  LET found == {p \in ById(id) : p.user = u}
  IN /\ IF found = {}
        THEN /\ resp' = Plain("deselect", 404, "Post not found or unauthorized")
             /\ UNCHANGED posts
        ELSE /\ posts' = {IF p \in found THEN [p EXCEPT !.selected = FALSE] ELSE p
                            : p \in posts}
             /\ resp' = Plain("deselect", 200, "Post deselected successfully")
     /\ UNCHANGED <<nextId, now, users, youtubeApiKey, inflight, reads, page, extracted, auxVars>>

\* lines 2856-2901: POST /post/update-details
UpdateDetails(u, id, title, description, productLink) ==
  LET found == {p \in ById(id) : p.user = u}
  IN /\ IF found = {}
        THEN /\ resp' = Plain("update-details", 404, "Post not found or unauthorized")
             /\ UNCHANGED posts
        ELSE /\ posts' = {IF p \in found
                            THEN [p EXCEPT !.title = title, !.description = description,
                                           !.productLink = productLink]
                            ELSE p : p \in posts}
             /\ resp' = Plain("update-details", 200, "Post details updated successfully")
     /\ UNCHANGED <<nextId, now, users, youtubeApiKey, inflight, reads, page, extracted, auxVars>>

\* lines 2304-2350: PATCH /post/product-link
ProductLink(u, url, platform, productLink) ==
  LET found == {p \in posts : p.user = u /\ p.url = url /\ p.platform = platform}
  IN /\ IF ~Truthy(url) \/ platform = "" \/ ~Truthy(productLink)
        THEN /\ resp' = Plain("product-link", 400,
                              "URL, platform, and product link are required")
             /\ UNCHANGED posts
        ELSE IF found = {}
        THEN /\ resp' = Plain("product-link", 404, "Post not found")
             /\ UNCHANGED posts
        ELSE /\ posts' = {IF p \in found THEN [p EXCEPT !.productLink = productLink] ELSE p
                            : p \in posts}
             /\ resp' = Plain("product-link", 200, "Product link updated successfully")
     /\ UNCHANGED <<nextId, now, users, youtubeApiKey, inflight, reads, page, extracted, auxVars>>

\* ------------------------------------------------------------------------
\* user.save() and its pre-save hook
\* ------------------------------------------------------------------------
\* src/config/proxy.js lines 226-232: whether the hook reaches bcrypt.genSalt
\* and bcrypt.hash. The branch for an unmodified password calls next() and
\* does not return, so the lines after it run either way
PreSaveHashes(passwordModified) == TRUE

\* the password a save leaves in the store: the hash of a modified password;
\* for an unmodified one the stored value stays, the hook's late assignment
\* to this.password comes after next() and is not written
SavedPassword(stored, passwordModified, plain) ==
  IF passwordModified THEN Hashed(plain) ELSE stored

\* ------------------------------------------------------------------------
\* Feed configuration
\* ------------------------------------------------------------------------
\* src/config/proxy.js lines 103-114: the enums user.save() validates
SchemaLayouts == {"Grid", "No Gutter", "Highlight", "Slideshow"}
SchemaPostsCounts == {"3", "6", "9", "12", "15"}
\* lines 1975-1990: the layouts the route lets through
RouteLayouts == SchemaLayouts \cup {"Collage1", "Collage2", "Collage3", "Collage4", "Collage5"}

\* lines 1954-2032: POST /feed/settings
FeedSettings(u, setting, value) ==
  /\ IF setting = "" \/ value = ""
     THEN /\ resp' = Plain("feed-settings", 400, "Setting name and value are required")
          /\ UNCHANGED <<users, hashing>>
     ELSE IF setting \notin {"layout", "postsCount"}
     THEN /\ resp' = Plain("feed-settings", 400,
                           "Invalid setting. Must be one of: layout, postsCount")
          /\ UNCHANGED <<users, hashing>>
     ELSE IF setting = "layout" /\ value \notin RouteLayouts
     THEN /\ resp' = Plain("feed-settings", 400,
                           "Invalid layout. Must be one of: Grid, Carousel, Masonry")
          /\ UNCHANGED <<users, hashing>>
     ELSE IF setting = "postsCount" /\ value \notin SchemaPostsCounts
     THEN /\ resp' = Plain("feed-settings", 400,
                           "Invalid postsCount. Must be one of: 3, 6, 9, 12, 15")
          /\ UNCHANGED <<users, hashing>>
     ELSE IF setting = "layout" /\ value \notin SchemaLayouts
     THEN /\ resp' = Plain("feed-settings", 500, "Server error")
          /\ UNCHANGED <<users, hashing>>
     ELSE /\ users' = [users EXCEPT ![u][setting] = value]
          /\ hashing' = PreSaveHashes(FALSE)
          /\ resp' = Plain("feed-settings", 200,
                           IF setting = "layout" THEN "Feed layout updated successfully"
                           ELSE "Feed postsCount updated successfully")
  /\ UNCHANGED <<posts, nextId, now, youtubeApiKey, inflight, reads, page, extracted,
                 imageCache, proxying, served, clicks, retry, rehost, outbound, toggling,
                 resetting>>

\* lines 2054-2097: POST /platforms/toggle, handled with no other request
\* of the user in between
TogglePlatform(u, platform) ==
  /\ IF platform = ""
     THEN /\ resp' = Plain("toggle", 400, "Platform name is required")
          /\ UNCHANGED <<users, hashing>>
     ELSE IF platform \notin Platforms
     THEN /\ resp' = Plain("toggle", 400,
                           "Invalid platform. Must be one of: instagram, facebook, youtube, tiktok")
          /\ UNCHANGED <<users, hashing>>
     ELSE /\ users' = [users EXCEPT ![u].selectedPlatforms[platform] = ~@]
          /\ hashing' = PreSaveHashes(FALSE)
          /\ resp' = Plain("toggle", 200, platform \o " toggled successfully")
  /\ UNCHANGED <<posts, nextId, now, youtubeApiKey, inflight, reads, page, extracted,
                 imageCache, proxying, served, clicks, retry, rehost, outbound, toggling,
                 resetting>>

\* line 2056: the handler works on req.user, the user document its request
\* was given before the handler ran; a well-formed request holds it up to
\* user.save()
ToggleLoad(k, u, platform) ==
  /\ toggling[k] = NoToggle
  /\ platform \in Platforms
  /\ toggling' = [toggling EXCEPT ![k] =
                    [user |-> u, platform |-> platform,
                     loaded |-> users[u].selectedPlatforms[platform]]]
  /\ UNCHANGED <<storeVars, resp, imageCache, proxying, served, clicks, retry, rehost, outbound,
                 accountVars>>

\* lines 2076-2088: the value of the loaded document is negated, the
\* document is saved and the request answered
ToggleSave(k) ==
  LET t == toggling[k]
  IN /\ t # NoToggle
     /\ users' = [users EXCEPT ![t.user].selectedPlatforms[t.platform] = ~t.loaded]
     /\ hashing' = PreSaveHashes(FALSE)
     /\ resp' = Plain("toggle", 200, t.platform \o " toggled successfully")
     /\ toggling' = [toggling EXCEPT ![k] = NoToggle]
     /\ UNCHANGED <<posts, nextId, now, youtubeApiKey, inflight, reads, page, extracted,
                    imageCache, proxying, served, clicks, retry, rehost, outbound, resetting>>

\* ------------------------------------------------------------------------
\* Feeds
\* ------------------------------------------------------------------------
UnknownUser == "u9"

\* part_003 lines 23-27, social.js lines 2146-2150: the enabled platforms
EnabledPlatforms(u) == {p \in Platforms : users[u].selectedPlatforms[p]}

\* part_003 line 7-29: GET /:userId up to Post.find; the public feed takes no count
FeedPublicBegin(k, userId) ==
  /\ Free(k)
  /\ IF userId \notin Users
     THEN /\ resp' = Plain("feed", 404, "User not found")
          /\ UNCHANGED reads
     ELSE /\ reads' = [reads EXCEPT ![k] = [op |-> "feed", user |-> userId,
                                            platforms |-> EnabledPlatforms(userId),
                                            postsCount |-> users[userId].postsCount,
                                            count |-> ""]]
          /\ UNCHANGED resp
  /\ UNCHANGED <<posts, nextId, now, users, youtubeApiKey, inflight, page, extracted, auxVars>>

\* social.js lines 2136-2150: GET /posts/all up to Post.find; count is
\* req.query.count, "" when the query has none
PostsAllBegin(k, u, count) ==
  /\ Free(k)
  /\ reads' = [reads EXCEPT ![k] = [op |-> "posts-all", user |-> u,
                                    platforms |-> EnabledPlatforms(u),
                                    postsCount |-> users[u].postsCount,
                                    count |-> count]]
  /\ UNCHANGED <<posts, nextId, now, users, youtubeApiKey, inflight, resp, page, extracted, auxVars>>

\* a feed that falls back to no limit instead of the configured postsCount
FeedLimitUncapped(r) == IF r.count # "" THEN ParseInt(r.count) ELSE 0

\* social.js lines 2142-2144, part_003 line 29: the argument of limit()
FeedLimit(r) == IF r.count # "" THEN ParseInt(r.count) ELSE ParseInt(r.postsCount)

\* the filter of Post.find
EligibleIgnoringSelected(p, r) == p.user = r.user /\ p.platform \in r.platforms

Eligible(p, r) == p.user = r.user /\ p.platform \in r.platforms /\ p.selected

\* sort({addedAt: -1}): the orders the store may return S in; posts with equal
\* addedAt come in any order
SortedDesc(S) ==
  {f \in [1..Cardinality(S) -> S] :
     /\ \A i, j \in 1..Cardinality(S) : i # j => f[i] # f[j]
     /\ \A i \in 1..Cardinality(S) - 1 : f[i].addedAt >= f[i + 1].addedAt}

\* a limit that lets one document too many through
LimitPlusOne(seq, n) == IF n = 0 THEN seq ELSE Slice(seq, 1, n + 1)

\* limit(n): the first n documents; limit(0) sets no limit

Limit(seq, n) == IF n = 0 THEN seq ELSE Slice(seq, 1, n)

\* part_003 lines 43-50, social.js lines 2166-2174: formattedPosts
FeedEntry(p) == [imageUrl |-> PostImage(p), url |-> p.url, platform |-> p.platform]

FormattedPosts(seq) == [i \in 1..Len(seq) |-> FeedEntry(seq[i])]

\* part_003 lines 31-67, social.js lines 2153-2181: Post.find and the response
FeedFind(k) ==
  LET r == reads[k]
  IN /\ r # NoRead
     /\ \E sorted \in SortedDesc({p \in posts : Eligible(p, r)}) :
          resp' = Respond(r.op, 200, "", None, "",
                          FormattedPosts(Limit(sorted, FeedLimit(r))))
     /\ reads' = [reads EXCEPT ![k] = NoRead]
     /\ UNCHANGED <<posts, nextId, now, users, youtubeApiKey, inflight, page, extracted, auxVars>>

\* ------------------------------------------------------------------------
\* Spec: the Post store under concurrent imports of every platform and the
\* requests on stored posts
\* ------------------------------------------------------------------------
FbPageWith(u) == [FbEmptyPage EXCEPT !.ogImage = u]
IgContentPage == IgPageWith("og:image", ImgContent)
Texts == {<<"text">>}

\* YouTube, Facebook and TikTok imports of one user arrive one at a time;
\* Instagram imports of both users race on both connections
StoreImports ==
  \/ ImportYouTube("k1", "u1", YtWatch, "ok", "ok")
  \/ \E k \in Conns, u \in Users : ImportInstagram(k, u, IgP, None, IgContentPage, AllOk)
  \/ ImportFacebook("k1", "u1", FbPost, FbPageWith(FbImg), AllOk)
  \/ ImportTikTok("k1", "u1", TtVideo, TtHelperData(TtCover), TtOgPage(TtCover), AllOk)

Next ==
  \/ StoreImports
  \/ \E k \in Conns : PersistCreated(k, MaxIds, {1})
  \/ \E k \in Conns : PersistRejected(k, TtOgPage(TtCover), AllOk)
  \/ \E u \in Users, id \in 1..MaxIds : DeletePost(u, id)
  \/ \E u \in Users, id \in 1..MaxIds : SelectPost(u, id)
  \/ \E u \in Users, id \in 1..MaxIds : DeselectPost(u, id)
  \/ \E u \in Users, t \in Texts : UpdateDetails(u, 1, t, t, t)

Spec == Init /\ [][Next]_vars

\* C1: after any interleaving of import, update, select/deselect and delete
\* requests, no two stored posts have the same (user, url) pair.
UniqueUserUrl ==
  \A p, q \in posts : (p.user = q.user /\ p.url = q.url) => p = q

\* two users hold the same url, and an import of an already held (user, url)
\* has just been turned down
UniqueUserUrlWitness ==
  /\ \E p, q \in posts : p.url = q.url /\ p.user # q.user
  /\ resp.error = DuplicateKey

\* the request on connection k reaches a Post.create for a (user, url) the user
\* already holds
DuplicateAttempt(k) ==
  /\ inflight[k] # Idle
  /\ inflight'[k] # inflight[k]
  /\ \E p \in posts : p.user = inflight[k].user /\ p.url = inflight[k].doc.url

TtUrls == {None, TtVideo, TtBad}
TtHelpers == {TtHelperError, TtHelperNoData, TtHelperData(TtCover), TtHelperData(None)}
TtOgs == {TtOgError, TtOgPage(None), TtOgPage(TtCover)}
Outcomes == {AllOk, TooSmall, AllFail}

NextTikTok ==
  \/ \E k \in Conns, url \in TtUrls, h \in TtHelpers, og \in TtOgs, o \in Outcomes :
       ImportTikTok(k, "u1", url, h, og, o)
  \/ \E k \in Conns : PersistCreated(k, MaxIds, {1})
  \/ \E k \in Conns, og \in TtOgs, o \in Outcomes : PersistRejected(k, og, o)
  \/ \E id \in 1..MaxIds : DeletePost("u1", id)

SpecTikTok == Init /\ [][NextTikTok]_vars

\* ------------------------------------------------------------------------
\* SpecFacebook: POST /facebook under every answer of its collaborators
\* ------------------------------------------------------------------------
FbUrls == {None, FbPost, FbShareV, FbBad}
FbPages == {FbFetchError, FbEmptyPage, FbPageWith(FbImg)}

NextFacebook ==
  \/ \E k \in Conns, url \in FbUrls, pg \in FbPages, o \in Outcomes :
       ImportFacebook(k, "u1", url, pg, o)
  \/ \E k \in Conns : PersistCreated(k, MaxIds, {1})
  \/ \E k \in Conns : PersistRejected(k, TtOgError, AllOk)
  \/ \E id \in 1..MaxIds : DeletePost("u1", id)

SpecFacebook == Init /\ [][NextFacebook]_vars

\* ------------------------------------------------------------------------
\* SpecMedia: POST /youtube and POST /instagram for every input shape and
\* every answer of their collaborators, the API key set or unset
\* ------------------------------------------------------------------------
YtUrls == {None, YtWatch, YtShort, YtIframe, YtBad}
ApiOutcomes == {"ok", "error", "noitems"}
IgUrls == {None, IgP, IgReel, IgSnippet, IgBad}
IgPages == {IgFetchError, IgEmptyPage, IgContentPage}

InitMedia == InitWith(BOOLEAN)

NextMedia ==
  \/ \E url \in YtUrls, v \in ApiOutcomes, c \in ApiOutcomes :
       ImportYouTube("k1", "u1", url, v, c)
  \/ \E url \in IgUrls, pg \in IgPages, o \in Outcomes :
       ImportInstagram("k1", "u1", url, None, pg, o)
  \/ PersistCreated("k1", MaxIds, {1})
  \/ PersistRejected("k1", TtOgError, AllOk)
  \/ \E id \in 1..MaxIds : DeletePost("u1", id)

SpecMedia == InitMedia /\ [][NextMedia]_vars

\* ------------------------------------------------------------------------
\* Claims on the import endpoints
\* ------------------------------------------------------------------------
\* the request on connection k is answered in this step
Answered(k) == inflight[k] # Idle /\ inflight'[k] = Idle

\* the request on connection k attempts a Post.create in this step
Attempts(k) == inflight[k] # Idle /\ inflight'[k] # inflight[k]

Holds(u, url) == \E p \in posts : p.user = u /\ p.url = url

\* an import answers in this step without having reached a Post.create
AnswersBeforeCreate(op) == resp' # resp /\ inflight' = inflight /\ resp'.op = op

\* what identifies the content of a stored post: the video ID, the shortcode
ContentKey(p) ==
  IF p.platform = "youtube" THEN p.videoId
  ELSE IF p.platform = "instagram" THEN IgShortcode(IgProcessedUrl(p.url, None))
  ELSE p.url

\* C3: for one owner, two YouTube imports with the same video ID, or two
\* Instagram imports with the same shortcode, never leave two stored posts.
OnePostPerContent ==
  \A p, q \in posts :
    (p.user = q.user /\ p.platform = q.platform /\ ContentKey(p) = ContentKey(q)) => p = q

\* C4 as stated: the Post.create of the TikTok logo placeholder, reached when
\* the helper API and the Open Graph fallback have failed, always stores the
\* placeholder post and answers 200 with the logo as thumbnailUrl.
TikTokPlaceholderAlwaysStored ==
  [][\A k \in Conns :
       (Attempts(k) /\ inflight[k].doc.platform = "tiktok" /\ inflight[k].stage = "logo") =>
         /\ resp'.status = 200 /\ resp'.image = TtLogo
         /\ \E p \in posts' \ posts : p.thumbnailUrl = TtLogo]_vars

\* C4: a TikTok import whose helper API call and Open Graph fallback have
\* failed answers 200 with the logo as thumbnailUrl and stores a post with the
\* logo, unless the user already holds a post with that url: then it answers
\* 500 with the duplicate key error and stores nothing.
TikTokPlaceholderUnlessDuplicate ==
  [][\A k \in Conns :
       (Attempts(k) /\ inflight[k].doc.platform = "tiktok" /\ inflight[k].stage = "logo") =>
         IF Holds(inflight[k].user, inflight[k].doc.url)
         THEN /\ resp'.status = 500 /\ resp'.error = DuplicateKey
              /\ posts' = posts
         ELSE /\ resp'.status = 200 /\ resp'.image = TtLogo
              /\ \E p \in posts' \ posts :
                   /\ p.thumbnailUrl = TtLogo
                   /\ p.user = inflight[k].user
                   /\ p.url = inflight[k].doc.url
                   /\ p.platform = "tiktok"]_vars

\* the placeholder post is stored and its 200 is the latest response
TikTokPlaceholderWitness ==
  /\ resp.op = "tiktok" /\ resp.status = 200 /\ resp.image = TtLogo
  /\ \E p \in posts : p.platform = "tiktok" /\ p.thumbnailUrl = TtLogo

\* C5 as stated: every TikTok import that passed validation is answered with
\* an HTTP success.
TikTokAlwaysSucceeds ==
  [][/\ \A k \in Conns :
          (Answered(k) /\ inflight[k].doc.platform = "tiktok") => resp'.status = 200
     /\ AnswersBeforeCreate("tiktok") => resp'.status = 400]_vars

\* C5: a TikTok import that passed validation is answered 200 whatever the
\* helper API, the Open Graph fetch and the rehost uploads do; the one error
\* status is the 500 of a placeholder Post.create that the unique index
\* rejects, and before a Post.create only validation (400) answers.
TikTokFailsOnlyOnDuplicate ==
  [][/\ \A k \in Conns :
          (Answered(k) /\ inflight[k].doc.platform = "tiktok") =>
            \/ resp'.status = 200
            \/ /\ resp'.status = 500
               /\ resp'.error = DuplicateKey
               /\ inflight[k].stage = "logo"
               /\ Holds(inflight[k].user, inflight[k].doc.url)
     /\ AnswersBeforeCreate("tiktok") => resp'.status = 400]_vars

\* an import whose helper API failed and whose rehost failed was answered 200
\* with the thumbnail of the page's Open Graph tag
TikTokFailsOnlyOnDuplicateWitness ==
  /\ resp.op = "tiktok" /\ resp.status = 200 /\ resp.image = TtCover
  /\ resp.message = "TikTok video added successfully with OG tags"

\* C6: a Facebook import whose url passed validation never fails on
\* extraction: before its Post.create the handler answers only validation
\* errors (400), and every other outcome goes on to store a post.
FacebookExtractionNeverFails ==
  [][AnswersBeforeCreate("facebook") => resp'.status = 400]_vars

\* the image field the claim names for the platform of a stored post
PrimaryImage(p) ==
  IF p.platform \in {"youtube", "tiktok"} THEN p.thumbnailUrl ELSE p.imageUrl

\* C18: every stored post has a non-empty image URL (thumbnailUrl for YouTube
\* and TikTok, imageUrl for Instagram and Facebook) that starts with https://.
StoredImageIsHttps ==
  \A p \in posts : Truthy(PrimaryImage(p)) /\ IsSubAt(PrimaryImage(p), <<"https://">>, 1)

\* the messages of the failures C7 names
YtFailures == {"YouTube API key is not configured", "Error fetching YouTube data"}
IgFailures == {"Error accessing Instagram post. It may be private or not publicly accessible.",
               "Could not find image for the Instagram post"}
Placeholders == {None, FbLogo, TtLogo}

\* C7: a YouTube import that fails after validation (API key unset, API error,
\* no items) is answered 500 and an Instagram import that fails (page fetch
\* error, no image) is answered 404; the failing step stores nothing, before
\* their Post.create the two handlers answer nothing but 400, 500 (YouTube)
\* and 400, 404 (Instagram), and no stored YouTube or Instagram post carries
\* an empty or placeholder image.
MediaFailuresPropagate ==
  /\ [][/\ AnswersBeforeCreate("youtube") =>
             /\ posts' = posts
             /\ resp'.status \in {400, 500}
             /\ resp'.message \in YtFailures <=> resp'.status = 500
        /\ AnswersBeforeCreate("instagram") =>
             /\ posts' = posts
             /\ resp'.status \in {400, 404}
             /\ resp'.message \in IgFailures <=> resp'.status = 404]_vars
  /\ [](\A p \in posts :
          p.platform \in {"youtube", "instagram"} => PostImage(p) \notin Placeholders)

\* a YouTube import has just failed on the unset API key, next to a stored
\* Instagram post
MediaFailuresPropagateWitness ==
  /\ resp.op = "youtube" /\ resp.status = 500
  /\ resp.message = "YouTube API key is not configured"
  /\ \E p \in posts : p.platform = "instagram"

\* ------------------------------------------------------------------------
\* SpecFeed: the two feed endpoints over a store that imports have filled,
\* with the requests that change what a feed shows
\* ------------------------------------------------------------------------
IgDoc(url) == IgPlan(url, None, IgContentPage, AllOk).doc
YtDoc(url) == YtPlan(url, TRUE, "ok", "ok").doc

\* four posts of u1, two of them created in the same millisecond, and a post
\* of u2 with a url u1 holds too
FeedStore ==
  { NewPost("u1", IgDoc(IgP), 1, 1), NewPost("u1", YtDoc(YtWatch), 2, 2),
    NewPost("u1", IgDoc(IgReel), 3, 2), NewPost("u1", YtDoc(YtShort), 4, 3),
    NewPost("u2", IgDoc(IgP), 5, 4) }

InitFeed ==
  /\ posts = FeedStore
  /\ nextId = Cardinality(FeedStore) + 1
  /\ now = Cardinality(FeedStore) - 1
  /\ users = [u \in Users |-> NewUser]
  /\ youtubeApiKey = TRUE
  /\ inflight = [k \in Conns |-> Idle]
  /\ reads = [k \in Conns |-> NoRead]
  /\ resp = NoResp
  /\ page = IgEmptyPage
  /\ extracted = NotExtracted
  /\ AuxInit

FeedToggleIds == {1, 4, 5}
FeedSettingInputs == {<<"postsCount", "3">>, <<"postsCount", "6">>, <<"postsCount", "4">>,
                      <<"layout", "Collage1">>, <<"layout", "Carousel">>, <<"", "">>}
FeedCounts == {"", "0", "1", "4"}

NextFeed ==
  \/ \E u \in Users, id \in FeedToggleIds : DeselectPost(u, id)
  \/ \E id \in FeedToggleIds : SelectPost("u1", id)
  \/ \E p \in {"youtube", "vimeo", ""} : TogglePlatform("u1", p)
  \/ \E in \in FeedSettingInputs : FeedSettings("u1", in[1], in[2])
  \/ \E userId \in Users \cup {UnknownUser} : FeedPublicBegin("k1", userId)
  \/ \E count \in FeedCounts : PostsAllBegin("k1", "u1", count)
  \/ FeedFind("k1")

SpecFeed == InitFeed /\ [][NextFeed]_vars

\* lines 1959-2001: the request passes the route's own validation
PassesRouteValidation(setting, value) ==
  \/ setting = "layout" /\ value \in RouteLayouts
  \/ setting = "postsCount" /\ value \in SchemaPostsCounts

\* C29: a POST /feed/settings whose setting and value pass the route's
\* validation lists is answered 200 and the value is stored; a rejected
\* request leaves the user's feed settings as they were.
FeedSettingsPersisted ==
  [][\A in \in FeedSettingInputs :
       FeedSettings("u1", in[1], in[2]) =>
         IF PassesRouteValidation(in[1], in[2])
         THEN resp'.status = 200 /\ users'["u1"][in[1]] = in[2]
         ELSE /\ resp'.status = 400
              /\ users'["u1"].layout = users["u1"].layout
              /\ users'["u1"].postsCount = users["u1"].postsCount]_vars

\* the feed request on connection k is answered in this step
FeedAnswered(k) == reads[k] # NoRead /\ reads'[k] = NoRead

\* the stored post a feed entry of user u shows
PostOf(u, e) == CHOOSE p \in posts : p.user = u /\ p.url = e.url

Least(a, b) == IF a < b THEN a ELSE b

\* the list holds n different posts the read r was eligible for, in descending
\* addedAt order, and no eligible post left out is newer than a listed one
NewestOf(list, r, n) ==
  LET shown == {PostOf(r.user, list[i]) : i \in 1..Len(list)}
  IN /\ Len(list) = n
     /\ Cardinality(shown) = n
     /\ \A i \in 1..Len(list) :
          \E p \in posts : Eligible(p, r) /\ p.url = list[i].url
     /\ \A i \in 1..Len(list) - 1 :
          PostOf(r.user, list[i]).addedAt >= PostOf(r.user, list[i + 1]).addedAt
     /\ \A p \in shown, q \in {x \in posts : Eligible(x, r)} \ shown :
          p.addedAt >= q.addedAt

EligibleCount(r) == Cardinality({p \in posts : Eligible(p, r)})

\* C9 as stated: every feed request returns exactly the min(k, N) newest
\* eligible posts, k the configured postsCount and N the number of eligible
\* posts.
FeedReturnsConfiguredCount ==
  [][\A k \in Conns :
       FeedAnswered(k) =>
         NewestOf(resp'.posts, reads[k],
                  Least(ParseInt(reads[k].postsCount), EligibleCount(reads[k])))]_vars

\* C9: a feed request without a count parameter returns exactly the min(k, N)
\* newest eligible posts in descending addedAt order, k the postsCount the
\* request read and N the number of eligible posts at its Post.find; GET
\* /posts/all with count = c returns the min(c, N) newest for c >= 1 and all N
\* for c = 0, whatever k is.
FeedReturnsLimit ==
  [][\A k \in Conns :
       FeedAnswered(k) =>
         LET r == reads[k]
             N == EligibleCount(r)
             c == IF r.count = "" THEN ParseInt(r.postsCount) ELSE ParseInt(r.count)
         IN NewestOf(resp'.posts, r, IF c = 0 THEN N ELSE Least(c, N))]_vars

\* a public feed has just returned 3 posts to a user who has 4 eligible ones
FeedReturnsLimitWitness ==
  /\ resp.op = "feed" /\ Len(resp.posts) = 3
  /\ users["u1"].postsCount = "3"
  /\ Cardinality({p \in posts : p.user = "u1" /\ p.selected
                                 /\ users["u1"].selectedPlatforms[p.platform]}) = 4

\* C10: every post of a feed response is owned by the user whose feed is
\* requested, has selected = true at the Post.find, and has a platform that
\* was enabled in the selectedPlatforms the request read.
FeedShowsOnlyEligible ==
  [][\A k \in Conns :
       FeedAnswered(k) =>
         \A i \in 1..Len(resp'.posts) :
           \E p \in posts :
             /\ p.user = reads[k].user
             /\ p.url = resp'.posts[i].url
             /\ p.platform = resp'.posts[i].platform
             /\ PostImage(p) = resp'.posts[i].imageUrl
             /\ p.selected
             /\ p.platform \in reads[k].platforms]_vars

\* a feed of u1 has been answered while u1 holds a deselected post and has a
\* platform disabled, and u2 holds a selected post
FeedShowsOnlyEligibleWitness ==
  /\ resp.op \in {"feed", "posts-all"} /\ Len(resp.posts) > 0
  /\ \E p \in posts : p.user = "u1" /\ ~p.selected
  /\ ~users["u1"].selectedPlatforms["youtube"]
  /\ \E p \in posts : p.user = "u2" /\ p.selected

\* C11 as stated: no feed response holds more posts than the configured
\* postsCount, whatever the request carries.
FeedNeverExceedsConfigured ==
  [][\A k \in Conns :
       FeedAnswered(k) => Len(resp'.posts) <= ParseInt(reads[k].postsCount)]_vars

\* C11: the configured postsCount of every user is always one of 3, 6, 9, 12,
\* 15; a feed request without a count parameter returns at most the postsCount
\* it read, and GET /posts/all with count = c >= 1 returns at most c posts.
FeedCappedUnlessCountGiven ==
  /\ [](\A u \in Users : users[u].postsCount \in SchemaPostsCounts)
  /\ [][\A k \in Conns :
          FeedAnswered(k) =>
            /\ reads[k].count = "" =>
                 Len(resp'.posts) <= ParseInt(reads[k].postsCount)
            /\ (reads[k].count # "" /\ ParseInt(reads[k].count) >= 1) =>
                 Len(resp'.posts) <= ParseInt(reads[k].count)]_vars

\* GET /posts/all has returned 3 posts to a user configured to 3 who has 4
\* eligible posts
FeedCappedWitness ==
  /\ resp.op = "posts-all" /\ Len(resp.posts) = 3
  /\ users["u1"].postsCount = "3"
  /\ Cardinality({p \in posts : p.user = "u1" /\ p.selected
                                 /\ users["u1"].selectedPlatforms[p.platform]}) = 4

\* ------------------------------------------------------------------------
\* GET /proxy/image (src/routes/auth.js lines 2302-2439, src/routes/social.js
\* lines 2713-2851)
\* ------------------------------------------------------------------------
\* CACHE_DURATION, in hours
CACHE_DURATION == 24

\* the latest hour the clock of the model reaches
MaxClock == 48

\* getCachedImage(url) at Date.now() = t
GetCachedImage(router, url, t) ==
  LET cached == imageCache[router][url]
  IN IF cached # NotCached /\ t - cached.timestamp < CACHE_DURATION
     THEN cached.imageUrl
     ELSE None

\* auth.js line 2367 calls setCachedImage(url, url) after a successful fetch;
\* social.js lines 2776-2778 leave the Map alone
StoresInCache(router) == router = "auth"

\* the static images the handler redirects to
IgFavicon == <<"https://", "www", ".", "instagram", ".com", "/", "static", "/", "images", "/",
               "ico", "/", "favicon-192.png">>
ViaPlaceholder == <<"https://", "via", ".", "placeholder", ".com", "/", "300x300", "?",
                    "text=Image+Not+Available">>

\* a handler that answers every failure with the generic placeholder
GenericPlaceholder(url) == ViaPlaceholder

\* the fallback image chosen by url.includes(...)
PlaceholderFor(url) ==
  IF Includes(url, <<"instagram", ".com">>) THEN IgFavicon
  ELSE IF Includes(url, <<"facebook", ".com">>) \/ Includes(url, <<"fbcdn", ".net">>)
  THEN FbLogo
  ELSE IF Includes(url, <<"tiktok", ".com">>) THEN TtLogo
  ELSE ViaPlaceholder

\* what the upstream answers: an HTTP status, or -1 when no response arrives
UpstreamStatuses == {200, 401, 403, 404, 500, -1}

\* res.send(response.data), res.redirect(target), and the two JSON errors
SendBytes(url) == Respond("proxy", 200, "bytes", url, "", << >>)
Redirect(target) == Respond("proxy", 302, "redirect", target, "", << >>)

\* the handler up to its upstream fetch: validation and the cache check
ProxyBegin(k, router, url) ==
  /\ proxying[k].stage \in {"idle", "done"}
  /\ IF ~Truthy(url)
     THEN /\ resp' = Plain("proxy", 400, "Image URL is required")
          /\ proxying' = [proxying EXCEPT ![k] = [NoProxy EXCEPT !.router = router,
                                                                 !.stage = "done"]]
     ELSE IF Truthy(GetCachedImage(router, url, now))
     THEN /\ resp' = Redirect(GetCachedImage(router, url, now))
          /\ proxying' = [proxying EXCEPT ![k] = [NoProxy EXCEPT !.router = router,
                                                  !.url = url, !.stage = "done"]]
     ELSE /\ proxying' = [proxying EXCEPT ![k] = [NoProxy EXCEPT !.router = router,
                                                  !.url = url, !.stage = "primary",
                                                  !.fetches = 1]]
          /\ UNCHANGED resp
  /\ UNCHANGED <<storeVars, imageCache, served, clicks, retry, rehost, outbound, toggling,
                 accountVars>>

\* the primary fetch settles with `status`: the bytes are sent, or the catch
\* block starts its ladder
ProxyPrimary(k, status) ==
  LET r == proxying[k]
      blocked == status \in {401, 403} /\ Includes(r.url, <<"instagram", ".com">>)
  IN /\ r.stage = "primary"
     /\ proxying' = [proxying EXCEPT ![k] =
                       [r EXCEPT !.primary = status,
                                 !.stage = IF status # 200 /\ blocked THEN "retry" ELSE "done",
                                 !.fetches = IF status # 200 /\ blocked THEN 2 ELSE 1]]
     /\ IF status = 200
        THEN /\ resp' = SendBytes(r.url)
             /\ imageCache' =
                  IF StoresInCache(r.router)
                  THEN [imageCache EXCEPT ![r.router][r.url] =
                          [imageUrl |-> r.url, timestamp |-> now]]
                  ELSE imageCache
             /\ served' = [served EXCEPT ![r.router][r.url] = now]
        ELSE /\ UNCHANGED <<imageCache, served>>
             /\ IF blocked THEN UNCHANGED resp
                ELSE IF status = 404
                THEN resp' = Plain("proxy", 404, "Image not found")
                ELSE resp' = Redirect(PlaceholderFor(r.url))
     /\ UNCHANGED <<storeVars, clicks, retry, rehost, outbound, toggling,
                 accountVars>>

\* the retry with the mobile user-agent settles with `status`; a failed retry
\* leaves `error` the primary failure, so the ladder goes on with 401 or 403
ProxyRetry(k, status) ==
  LET r == proxying[k]
  IN /\ r.stage = "retry"
     /\ proxying' = [proxying EXCEPT ![k] = [r EXCEPT !.retried = status, !.stage = "done"]]
     /\ IF status = 200
        THEN /\ resp' = SendBytes(r.url)
             /\ served' = [served EXCEPT ![r.router][r.url] = now]
        ELSE /\ resp' = Redirect(PlaceholderFor(r.url))
             /\ UNCHANGED served
     /\ UNCHANGED <<storeVars, imageCache, clicks, retry, rehost, outbound, toggling,
                 accountVars>>

\* time passes
Tick(d) ==
  /\ now + d <= MaxClock
  /\ now' = now + d
  /\ UNCHANGED <<posts, nextId, users, youtubeApiKey, inflight, reads, resp, page, extracted,
                 auxVars>>

\* ------------------------------------------------------------------------
\* SpecProxy: the image proxy of both routers over two days
\* ------------------------------------------------------------------------
HalfDay == {12}

\* the Instagram CDN is up, blocks or fails; the other hosts only fail
UpHosts == {PxInstagram}
Upstream(k, status) == status = 200 => proxying[k].url \in UpHosts

NextProxy ==
  \/ \E router \in Routers, url \in ProxyUrls \cup {None} : ProxyBegin("k1", router, url)
  \/ \E status \in UpstreamStatuses : Upstream("k1", status) /\ ProxyPrimary("k1", status)
  \/ \E status \in UpstreamStatuses : Upstream("k1", status) /\ ProxyRetry("k1", status)
  \/ \E d \in HalfDay : Tick(d)

SpecProxy == Init /\ [][NextProxy]_vars

\* a request for a url arrives on connection k in this step
ProxyArrives(k) ==
  /\ proxying[k].stage \in {"idle", "done"}
  /\ proxying'[k] # proxying[k]
  /\ Truthy(proxying'[k].url)

\* the request that arrives on k is answered at once, with no upstream fetch
AnsweredFromCache(k) ==
  /\ proxying'[k].stage = "done" /\ proxying'[k].fetches = 0
  /\ resp'.op = "proxy" /\ resp'.status = 302

\* C12: when the proxy has served the bytes of a url at time t, a request for
\* that url on the same router is answered from the cache, without an upstream
\* fetch, if and only if it arrives less than 24 hours after t.
ProxyCachesForADay ==
  [][\A k \in Conns :
       (ProxyArrives(k) /\ served[proxying'[k].router][proxying'[k].url] >= 0) =>
         (AnsweredFromCache(k)
            <=> now - served[proxying'[k].router][proxying'[k].url] < CACHE_DURATION)]_vars

\* the proxy request on connection k has been answered
ProxyDone(k) == proxying[k].stage = "done" /\ Truthy(proxying[k].url)

\* C13: when the primary fetch fails, (1) a 401 or 403 for an Instagram URL is
\* followed by exactly one retry, whose bytes are sent if it succeeds; (2)
\* otherwise, and after a failed retry, an upstream 404 is answered 404; (3)
\* otherwise the answer is a redirect to the placeholder of the host substring
\* found in the URL. A request awaits its retry only in case (1) and nothing is
\* sent before the ladder ends.
ProxyFailureLadder ==
  /\ [](\A k \in Conns :
          LET r == proxying[k]
              instagram == Includes(r.url, <<"instagram", ".com">>)
          IN /\ r.stage = "retry" => (r.primary \in {401, 403} /\ instagram /\ r.fetches = 2)
             /\ (ProxyDone(k) /\ r.fetches >= 1 /\ r.primary # 200) =>
                  /\ r.fetches = (IF r.primary \in {401, 403} /\ instagram THEN 2 ELSE 1)
                  /\ IF r.fetches = 2 /\ r.retried = 200
                     THEN resp.status = 200 /\ resp.image = r.url
                     ELSE IF r.primary = 404
                     THEN resp.status = 404
                     ELSE /\ resp.status = 302
                          /\ resp.image =
                               (IF instagram THEN IgFavicon
                                ELSE IF r.url \in {PxFacebook} THEN FbLogo
                                ELSE IF r.url \in {PxTikTok} THEN TtLogo
                                ELSE ViaPlaceholder))
  /\ [][\A k \in Conns :
          (proxying'[k] # proxying[k] /\ proxying'[k].stage \in {"primary", "retry"})
            => resp' = resp]_vars

\* an Instagram image whose primary fetch was answered 403 has been served by
\* the retry
ProxyRetryServedWitness ==
  /\ ProxyDone("k1") /\ proxying["k1"].url = PxInstagram
  /\ proxying["k1"].primary = 403 /\ proxying["k1"].retried = 200
  /\ resp.status = 200

\* the static placeholder images
ProxyPlaceholders == {IgFavicon, FbLogo, TtLogo, ViaPlaceholder}

\* C14: every answer to a request that carries a url is the image bytes, a
\* 404, or a redirect to one of the static placeholder images.
ProxyRedirectsOnlyToPlaceholders ==
  \A k \in Conns :
    ProxyDone(k) =>
      \/ resp.status = 200 /\ resp.message = "bytes"
      \/ resp.status = 404
      \/ resp.status = 302 /\ resp.image \in ProxyPlaceholders

\* ------------------------------------------------------------------------
\* retryWithBackoff (src/routes/social.js lines 28-40)
\* ------------------------------------------------------------------------
\* the greatest maxRetries the model calls the helper with
MaxRetries == 3

\* a backoff that waits initialDelay after every failure
BackoffDelayFixed(initialDelay, retries) == initialDelay

\* line 36: initialDelay * Math.pow(2, retries - 1)
BackoffDelay(initialDelay, retries) == initialDelay * 2 ^ (retries - 1)

\* lines 30-35: the loop test, the invocation of fn and the catch up to its
\* throw; outcomes[i] tells whether the i-th invocation of fn succeeds, and
\* result is the invocation whose value is returned or whose error is thrown
RetryAttempt ==
  /\ retry.pc = "test"
  /\ IF ~(retry.retries < retry.maxRetries)
     THEN retry' = [retry EXCEPT !.pc = "returned", !.result = 0]
     ELSE IF retry.outcomes[retry.calls + 1]
     THEN retry' = [retry EXCEPT !.calls = @ + 1, !.pc = "returned",
                                 !.result = retry.calls + 1]
     ELSE IF retry.retries + 1 = retry.maxRetries
     THEN retry' = [retry EXCEPT !.calls = @ + 1, !.retries = @ + 1, !.pc = "thrown",
                                 !.result = retry.calls + 1]
     ELSE retry' = [retry EXCEPT !.calls = @ + 1, !.retries = @ + 1, !.pc = "sleep"]
  /\ UNCHANGED <<storeVars, resp, imageCache, proxying, served, clicks, rehost, outbound, toggling,
                 accountVars>>

\* lines 36-37: await sleep(delay)
RetrySleep ==
  /\ retry.pc = "sleep"
  /\ retry' = [retry EXCEPT !.waits = Append(@, BackoffDelay(retry.initialDelay,
                                                             retry.retries)),
                            !.pc = "test"]
  /\ UNCHANGED <<storeVars, resp, imageCache, proxying, served, clicks, rehost, outbound, toggling,
                 accountVars>>

\* ------------------------------------------------------------------------
\* SpecRetry: retryWithBackoff called with every maxRetries up to MaxRetries
\* and every pattern of failures of fn
\* ------------------------------------------------------------------------
Delays == {1000, 250}

InitRetry ==
  /\ StoreInit({TRUE})
  /\ ProxyInit
  /\ clicks = {}
  /\ rehost = NoRehost
  /\ outbound = FALSE
  /\ toggling = [k \in Conns |-> NoToggle]
  /\ resetting = [k \in Conns |-> NoReset]
  /\ hashing = FALSE
  /\ \E m \in 0..MaxRetries, d \in Delays, f \in [1..MaxRetries -> BOOLEAN] :
       retry = [NoRetry EXCEPT !.maxRetries = m, !.initialDelay = d, !.outcomes = f,
                               !.pc = "test"]

NextRetry == RetryAttempt \/ RetrySleep

SpecRetry == InitRetry /\ [][NextRetry]_vars

\* C15: for maxRetries >= 1, fn is invoked at most maxRetries times; a return
\* hands back the first successful invocation, which is the last one made; the
\* wait after the k-th failure is initialDelay * 2^(k-1), for k < maxRetries
\* only; and after the maxRetries-th failure the error of that invocation is
\* thrown with no wait after it.
RetryBacksOffAndRethrows ==
  retry.maxRetries >= 1 =>
    /\ retry.calls <= retry.maxRetries
    /\ \A i \in 1..(retry.calls - 1) : ~retry.outcomes[i]
    /\ \A k \in 1..Len(retry.waits) :
         k < retry.maxRetries /\ retry.waits[k] = retry.initialDelay * 2 ^ (k - 1)
    /\ retry.pc = "test" => Len(retry.waits) = retry.calls
    /\ retry.pc = "sleep" => Len(retry.waits) = retry.calls - 1 /\ ~retry.outcomes[retry.calls]
    /\ retry.pc = "returned" =>
         /\ retry.calls >= 1 /\ retry.outcomes[retry.calls]
         /\ retry.result = retry.calls
         /\ Len(retry.waits) = retry.calls - 1
    /\ retry.pc = "thrown" =>
         /\ retry.calls = retry.maxRetries /\ ~retry.outcomes[retry.calls]
         /\ retry.result = retry.maxRetries
         /\ Len(retry.waits) = retry.maxRetries - 1

\* three attempts failed: the helper waited 1000 ms and 2000 ms and threw
RetryExhaustedWitness ==
  /\ retry.pc = "thrown" /\ retry.maxRetries = 3
  /\ retry.waits = <<1000, 2000>>

\* ------------------------------------------------------------------------
\* GET /post/details (src/routes/social.js lines 181-295)
\* ------------------------------------------------------------------------
\* the most Click documents the model lets the collection hold
MaxClicks == 3

\* the playback URL the helper API hands out when asked again
TtPlayFresh == <<"https://", "v16", ".", "tiktokcdn", ".com", "/", "video", "/", "play2.mp4">>

\* what the probe of post.videoPath finds: a video, a 403, another content
\* type, or no usable answer (the request throws)
Probes == {"video", "forbidden", "not-video", "error"}

\* lines 240-243: the probe answered, and the stored URL is taken for stale
ProbeSaysStale(probe) == probe \in {"forbidden", "not-video"}

\* lines 249-252 and 264-267: post.videoPath after a helper call that answered
Refreshed(videoPath, fresh) ==
  IF fresh.data THEN OrElse(fresh.wmplay, videoPath) ELSE videoPath

\* lines 217-274: post.videoPath when the TikTok block is left; first and
\* second are the answers of the helper API to the call in the try block and
\* to the call in the catch block
DetailsVideoPath(post, platform, probe, first, second) ==
  IF ~(platform = "tiktok" /\ Truthy(post.videoPath)) THEN post.videoPath
  ELSE IF probe = "video" THEN post.videoPath
  ELSE IF ProbeSaysStale(probe)
  THEN (IF first.ok THEN Refreshed(post.videoPath, first)
        ELSE IF second.ok THEN Refreshed(post.videoPath, second)
        ELSE post.videoPath)
  ELSE (IF first.ok THEN Refreshed(post.videoPath, first) ELSE post.videoPath)

\* a Click that does not say which post it counts
NewClickWithoutPost(id, userId, post, country, platform, t) ==
  [id |-> id, user |-> userId, post |-> 0, country |-> country, platform |-> platform,
   date |-> t, device |-> "desktop"]

\* part_006 lines 3-38 and social.js lines 276-281: the document Click.create stores
NewClick(id, userId, post, country, platform, t) ==
  [id |-> id, user |-> userId, post |-> post.id, country |-> country,
   platform |-> platform, date |-> t, device |-> "desktop"]

\* part_006: user and country are required
ClickValid(userId, country) == Truthy(userId) /\ Truthy(country)

\* lines 203-207: the posts Post.findOne({user: userId, url, platform}) may
\* return. A userId missing from the query is an undefined value in the
\* filter, which the driver either drops or sends as null
FindOne(userId, url, platform) ==
  {p \in posts : /\ p.url = url /\ p.platform = platform
                 /\ (Truthy(userId) => <<p.user>> = userId)}

\* lines 209-214: Post.findOne may have returned null
MayFindNone(userId, url, platform) ==
  FindOne(userId, url, platform) = {} \/ ~Truthy(userId)

\* the whole handler; the steps after Post.findOne read and change only the
\* handler's own copy of the document (.lean())
PostDetails(url, platform, userId, country, probe, first, second) ==
  /\ IF ~Truthy(url) \/ platform = ""
     THEN /\ resp' = Plain("details", 400, "URL and platform are required")
          /\ UNCHANGED clicks
     ELSE IF platform \notin Platforms
     THEN /\ resp' = Plain("details", 400,
                           "Invalid platform. Must be one of: youtube, tiktok, instagram, facebook")
          /\ UNCHANGED clicks
     ELSE \/ /\ MayFindNone(userId, url, platform)
             /\ resp' = Plain("details", 404, "Post not found")
             /\ UNCHANGED clicks
          \/ \E found \in FindOne(userId, url, platform) :
            LET post == [found EXCEPT !.videoPath =
                           DetailsVideoPath(found, platform, probe, first, second)]
            IN IF ~ClickValid(userId, country)
               THEN /\ resp' = Respond("details", 500, "Error fetching post details", None,
                                       "Click validation failed", << >>)
                    /\ UNCHANGED clicks
               ELSE /\ Cardinality(clicks) < MaxClicks
                    /\ clicks' = clicks \cup {NewClick(Cardinality(clicks) + 1, userId, post,
                                                       country, platform, now)}
                    /\ resp' = Respond("details", 200, "", PostImage(post), "", <<post>>)
  /\ UNCHANGED <<storeVars, imageCache, proxying, served, retry, rehost, outbound, toggling,
                 accountVars>>

\* ------------------------------------------------------------------------
\* SpecDetails: post-details reads over a store that imports have filled,
\* while the owner deletes posts
\* ------------------------------------------------------------------------
TtDoc(url) == TtPlan(url, TtHelperData(TtCover), TtOgError, AllOk).doc

\* a TikTok and a YouTube post of u1, and a TikTok post of u2 with the url of u1's
DetailsStore ==
  { NewPost("u1", TtDoc(TtVideo), 1, 1), NewPost("u1", YtDoc(YtWatch), 2, 2),
    NewPost("u2", TtDoc(TtVideo), 3, 3) }

InitDetails ==
  /\ posts = DetailsStore
  /\ nextId = Cardinality(DetailsStore) + 1
  /\ now = Cardinality(DetailsStore)
  /\ users = [u \in Users |-> NewUser]
  /\ youtubeApiKey = TRUE
  /\ inflight = [k \in Conns |-> Idle]
  /\ reads = [k \in Conns |-> NoRead]
  /\ resp = NoResp
  /\ page = IgEmptyPage
  /\ extracted = NotExtracted
  /\ AuxInit

DetailsUrls == {None, TtVideo, YtWatch}
DetailsPlatforms == {"", "tiktok", "youtube", "vimeo"}
DetailsUserIds == {None, <<"u1">>, <<"u2">>}
Countries == {None, <<"PK">>}
FreshAnswers == {TtHelperError,
                 [TtHelperData(TtCover) EXCEPT !.wmplay = TtPlayFresh],
                 [TtHelperData(TtCover) EXCEPT !.wmplay = None]}
SecondAnswers == {TtHelperError, [TtHelperData(TtCover) EXCEPT !.wmplay = TtPlayFresh]}

NextDetails ==
  \/ \E url \in DetailsUrls, platform \in DetailsPlatforms, userId \in DetailsUserIds,
        country \in Countries, probe \in Probes, first \in FreshAnswers,
        second \in SecondAnswers :
       PostDetails(url, platform, userId, country, probe, first, second)
  \/ \E u \in Users, id \in 1..Cardinality(DetailsStore) : DeletePost(u, id)

SpecDetails == InitDetails /\ [][NextDetails]_vars

\* the Click documents this step adds
AddedClicks == clicks' \ clicks

\* C19: no step removes or changes a Click; a step in which GET /post/details
\* answers 200 adds exactly one Click, and that Click names the post and the
\* platform of the post in the response; a step in which it answers 400 or
\* 404 adds none.
DetailsCountsOneClick ==
  [][ /\ clicks \subseteq clicks'
      /\ (resp'.op = "details" /\ resp'.status = 200) =>
            /\ Cardinality(AddedClicks) = 1
            /\ \A c \in AddedClicks : /\ c.post = resp'.posts[1].id
                                       /\ c.platform = resp'.posts[1].platform
      /\ (resp'.op = "details" /\ resp'.status \in {400, 404}) =>
            clicks' = clicks ]_vars

\* two reads were answered 200 and counted, the later one for a TikTok post
DetailsCountedWitness ==
  /\ resp.op = "details" /\ resp.status = 200
  /\ resp.posts[1].platform = "tiktok"
  /\ Cardinality(clicks) >= 2
  /\ \E c \in clicks : c.post = resp.posts[1].id /\ c.id = Cardinality(clicks)

\* C20: when a read of a TikTok post answers 200 with a playback URL other than
\* the stored one, the stored Post carries the URL of the response afterwards.
DetailsPersistsFreshUrl ==
  [][ (resp'.op = "details" /\ resp'.status = 200) =>
        \A p \in posts' : p.id = resp'.posts[1].id =>
                             p.videoPath = resp'.posts[1].videoPath ]_vars

\* ------------------------------------------------------------------------
\* SpecValidate: the four import endpoints, each given well-formed and
\* malformed inputs
\* ------------------------------------------------------------------------
\* a short link that carries no video ID
YtNoId == <<"https://", "youtu.be", "/">>

ValidateYtUrls == {None, YtWatch, YtBad, YtNoId}
ValidateIgUrls == {None, IgP, IgBad, TtVideo}
ValidateFbUrls == {None, FbPost, FbBad, IgP}
ValidateApis == {"ok", "error"}
ValidateIgPages == {IgFetchError, IgContentPage}
ValidateFbPages == {FbFetchError, FbPageWith(FbImg)}
ValidateHelpers == {TtHelperError, TtHelperData(TtCover)}

NextValidate ==
  \/ \E url \in ValidateYtUrls, v \in ValidateApis : ImportYouTube("k1", "u1", url, v, "ok")
  \/ \E url \in ValidateIgUrls, pg \in ValidateIgPages :
       ImportInstagram("k1", "u1", url, None, pg, AllOk)
  \/ \E url \in ValidateFbUrls, pg \in ValidateFbPages : ImportFacebook("k1", "u1", url, pg, AllOk)
  \/ \E url \in TtUrls, h \in ValidateHelpers :
       ImportTikTok("k1", "u1", url, h, TtOgPage(TtCover), AllOk)
  \/ PersistCreated("k1", MaxIds, {1})
  \/ PersistRejected("k1", TtOgPage(TtCover), AllOk)

SpecValidate == Init /\ [][NextValidate]_vars

\* the input of an import request fails the validation of its endpoint
FailsValidation(op, url) ==
  \/ ~Truthy(url)
  \/ op = "youtube" /\ ~Truthy(YtVideoId(YtNormalizedUrl(url)))
  \/ op = "instagram" /\ ~IgValid(IgProcessedUrl(url, None))
  \/ op = "facebook" /\ ~FbValid(url)
  \/ op = "tiktok" /\ ~Includes(url, <<"tiktok", ".com">>)

\* the step answers 400 on endpoint op, with no request sent to a remote
\* host, no Post stored and no Post.create pending
TurnedDown(op) ==
  /\ resp'.op = op /\ resp'.status = 400
  /\ ~outbound'
  /\ posts' = posts /\ nextId' = nextId /\ inflight' = inflight

\* C23: on each import endpoint a request whose input fails validation is
\* answered 400, and in handling it no outbound fetch is made and no Post is
\* created.
InvalidInputTurnedDown ==
  [][   /\ \A url \in ValidateYtUrls, v \in ValidateApis :
             (FailsValidation("youtube", url) /\ ImportYouTube("k1", "u1", url, v, "ok"))
               => TurnedDown("youtube")
        /\ \A url \in ValidateIgUrls, pg \in ValidateIgPages :
             (FailsValidation("instagram", url)
                /\ ImportInstagram("k1", "u1", url, None, pg, AllOk))
               => TurnedDown("instagram")
        /\ \A url \in ValidateFbUrls, pg \in ValidateFbPages :
             (FailsValidation("facebook", url) /\ ImportFacebook("k1", "u1", url, pg, AllOk))
               => TurnedDown("facebook")
        /\ \A url \in TtUrls, h \in ValidateHelpers :
             (FailsValidation("tiktok", url)
                /\ ImportTikTok("k1", "u1", url, h, TtOgPage(TtCover), AllOk))
               => TurnedDown("tiktok") ]_vars

\* a malformed Facebook url was turned down after an earlier import had
\* fetched its page and stored a post
InvalidInputWitness ==
  /\ resp.op = "facebook" /\ resp.status = 400
  /\ resp.message = "Invalid Facebook URL. Must be a post, photo, video, or share URL"
  /\ ~outbound
  /\ posts # {}

\* ------------------------------------------------------------------------
\* SpecYouTube: POST /youtube given the same video in each of its url forms
\* ------------------------------------------------------------------------
\* video identifiers, as sequences of tokens
VideoIds == {<<"ABC123">>, <<"dQw4", "-", "w9_WgX">>}

\* query parameters that follow the identifier
NoExtra == << >>
AmpExtra == <<"&", "t=", "10">>
QueryExtra == <<"?", "t=", "10", "&", "feature=", "share">>

WatchOf(X, extra) ==
  <<"https://", "www.", "youtube", ".com", "/", "watch", "?", "v=">> \o X \o extra
ShortOf(X, extra) == <<"https://", "youtu.be", "/">> \o X \o extra
IframeOf(X, extra, quote) ==
  <<"<iframe", " ", "src=", quote,
    "https://", "www.", "youtube", ".com", "/", "embed", "/">> \o X \o extra
    \o <<quote, ">">>

\* the inputs that name the video X
FormsOf(X) ==
  {WatchOf(X, e) : e \in {NoExtra, AmpExtra}}
    \cup {ShortOf(X, e) : e \in {NoExtra, QueryExtra}}
    \cup {IframeOf(X, NoExtra, "\""), IframeOf(X, QueryExtra, "'")}

NextYouTube ==
  \/ \E X \in VideoIds : \E url \in FormsOf(X) :
       ImportYouTube("k1", "u1", url, "ok", "ok")
  \/ PersistCreated("k1", MaxIds, {1})
  \/ PersistRejected("k1", TtOgError, AllOk)

SpecYouTube == Init /\ [][NextYouTube]_vars

\* C24: a watch url, a youtu.be url and an iframe embed snippet of the video X,
\* with or without query parameters after the identifier, all give the video
\* ID X.
YtFormsGiveSameId ==
  [][ \A X \in VideoIds : \A url \in FormsOf(X) :
        /\ YtVideoId(YtNormalizedUrl(url)) = X
        /\ ImportYouTube("k1", "u1", url, "ok", "ok") =>
             inflight'["k1"].doc.videoId = X ]_vars

\* an import of an embed snippet whose src carries query parameters is on its
\* way to Post.create with the ID of the video, after the same video was
\* stored from another form
YtFormsWitness ==
  /\ \E X \in VideoIds :
       /\ inflight["k1"].doc.videoId = X
       /\ inflight["k1"].doc.url = IframeOf(X, QueryExtra, "'")
       /\ \E p \in posts : p.videoId = X /\ p.url # inflight["k1"].doc.url

\* ------------------------------------------------------------------------
\* SpecRace: import requests of one user for one url per platform arrive on
\* both connections before any of them has reached the store
\* ------------------------------------------------------------------------
RaceStarts(k) ==
  \/ ImportYouTube(k, "u1", YtWatch, "ok", "ok")
  \/ ImportInstagram(k, "u1", IgP, None, IgContentPage, AllOk)
  \/ \E pg \in ValidateFbPages : ImportFacebook(k, "u1", FbPost, pg, AllOk)
  \/ \E h \in ValidateHelpers : ImportTikTok(k, "u1", TtVideo, h, TtOgPage(TtCover), AllOk)

NextRace ==
  \/ \E k \in Conns : posts = {} /\ RaceStarts(k)
  \/ \E k \in Conns : PersistCreated(k, MaxIds, {1})
  \/ \E k \in Conns : PersistRejected(k, TtOgPage(TtCover), AllOk)

SpecRace == Init /\ [][NextRace]_vars

\* the stored posts of this user and url
Stored(u, url) == {p \in posts : p.user = u /\ p.url = url}

\* C25: of two imports of one url by one user that are under way together,
\* neither is answered before it has reached Post.create; the one that
\* reaches the store first is stored and answered 200, the other stores
\* nothing and is answered with a failure that carries the duplicate key
\* error; one record of the (user, url) is stored.
RaceHasOneWinner ==
  /\ [](\A p, q \in posts : (p.user = q.user /\ p.url = q.url) => p = q)
  /\ [][ \A k \in Conns :
          /\ RaceStarts(k) => (inflight'[k] # Idle /\ resp' = resp)
          /\ (inflight[k] # Idle /\ inflight'[k] = Idle) =>
               LET r == inflight[k]
               IN IF Stored(r.user, r.doc.url) # {}
                  THEN /\ posts' = posts
                       /\ resp'.status \in {404, 500}
                       /\ resp'.error = DuplicateKey
                  ELSE /\ resp'.status = 200
                       /\ posts \subseteq posts'
                       /\ Cardinality(posts' \ posts) = 1
                       /\ \A p \in posts' \ posts : p.user = r.user /\ p.url = r.doc.url ]_vars

\* both requests for the TikTok url are answered: the first one stored stands
\* alone in the store, and the other came back with the duplicate key error
\* after it had gone down its fallbacks
RaceWitness ==
  /\ \A k \in Conns : inflight[k] = Idle
  /\ Cardinality(posts) = 1
  /\ \E p \in posts : p.platform = "tiktok"
  /\ resp.op = "tiktok" /\ resp.status = 500 /\ resp.error = DuplicateKey

\* ------------------------------------------------------------------------
\* SpecToggle: toggle requests of one user on both connections
\* ------------------------------------------------------------------------
TogglePlatforms == {"instagram", "youtube"}

NextToggle ==
  \/ \E k \in Conns, p \in TogglePlatforms : ToggleLoad(k, "u1", p)
  \/ \E k \in Conns : ToggleSave(k)

SpecToggle == Init /\ [][NextToggle]_vars

\* C26: every toggle request that is answered with success leaves the stored
\* value of its platform the negation of what was stored before, so that n
\* successful toggles of a platform leave it as it was for even n and negated
\* for odd n.
TogglesNeverLost ==
  [][ \A k \in Conns :
        (toggling[k] # NoToggle /\ toggling'[k] = NoToggle) =>
          users'[toggling[k].user].selectedPlatforms[toggling[k].platform]
            = ~users[toggling[k].user].selectedPlatforms[toggling[k].platform] ]_vars

\* ------------------------------------------------------------------------
\* The GET routes of the social router and their dispatch
\* ------------------------------------------------------------------------
\* a path segment that is a route parameter
Params == {":platform"}

\* the paths of router.get(...) in the order of registration, each a sequence
\* of segments (social.js lines 78, 181, 1929, 2035, 2100, 2136, 2271, 2353,
\* 2386, 2441, 2487, 2545, 2594, 2631, 2713, 2904)
GetRoutes ==
  << <<"clicks">>, <<"post", "details">>, <<"feed", "settings">>, <<"getplatforms">>,
     <<":platform">>, <<"posts", "all">>, <<"selected-posts">>, <<"posts-with-products">>,
     <<"posts-by-date">>, <<"posts", "search">>, <<"posts", ":platform", "by-date">>,
     <<"posts", ":platform", "search">>, <<"posts", ":platform", "with-products">>,
     <<"posts", ":platform", "selected">>, <<"proxy", "image">>, <<"cloudinary-test">> >>

\* a route path matches a request path segment by segment; a parameter
\* matches any segment
RouteMatches(route, path) ==
  /\ Len(route) = Len(path)
  /\ \A i \in 1..Len(route) : route[i] \in Params \/ route[i] = path[i]

\* the index of the route the router hands the request to: the first
\* registered route that matches; 0 when none does
Dispatch(path) ==
  LET hits == {i \in 1..Len(GetRoutes) : RouteMatches(GetRoutes[i], path)}
  IN IF hits = {} THEN 0 ELSE CHOOSE i \in hits : \A j \in hits : i <= j

\* lines 2100-2133: GET /:platform
GetByPlatform(u, platform) ==
  IF platform \notin Platforms
  THEN resp' = Plain(":platform", 400,
                     "Invalid platform. Must be one of: youtube, tiktok, instagram, facebook")
  ELSE \E sorted \in SortedDesc({p \in posts : p.user = u /\ p.platform = platform}) :
         resp' = Respond(":platform", 200, "", None, "", sorted)

\* a GET request of user u for a path of the social router. The handlers of
\* the routes other than /:platform only read; their answer is recorded under
\* the path of the route
GetRoute(u, path) ==
  /\ LET i == Dispatch(path)
     IN IF i = 0
        THEN resp' = Plain("none", 404, "")
        ELSE IF GetRoutes[i] = <<":platform">>
        THEN GetByPlatform(u, path[1])
        ELSE resp' = Plain(GetRoutes[i][1], 200, "")
  /\ UNCHANGED <<storeVars, auxVars>>

\* ------------------------------------------------------------------------
\* SpecRoutes: GET requests for paths of the router over a store whose owners
\* deselect and delete posts
\* ------------------------------------------------------------------------
SingleSegmentRoutes ==
  {"clicks", "getplatforms", "selected-posts", "posts-with-products", "posts-by-date",
   "cloudinary-test"}

RoutePaths ==
  {<<seg>> : seg \in SingleSegmentRoutes \cup {"tiktok", "youtube", "vimeo"}}
    \cup {<<"posts", "all">>, <<"nothing", "here">>}

NextRoutes ==
  \/ \E u \in Users, path \in RoutePaths : GetRoute(u, path)
  \/ \E u \in Users, id \in 1..Cardinality(DetailsStore) : DeletePost(u, id)
  \/ \E u \in Users, id \in 1..Cardinality(DetailsStore) : DeselectPost(u, id)

SpecRoutes == InitDetails /\ [][NextRoutes]_vars

\* C27: a GET request for one of the single-segment routes is answered by the
\* handler of that route, not by the handler of /:platform.
OwnHandlerAnswers ==
  [][ \A u \in Users, seg \in SingleSegmentRoutes :
        GetRoute(u, <<seg>>) => resp'.op = seg ]_vars

\* ------------------------------------------------------------------------
\* Password reset (src/controllers/authController.js lines 81-200)
\* ------------------------------------------------------------------------
\* the most reset tokens the model issues to a user
MaxTokens == 2

\* src/config/proxy.js line 262: the life of a reset token, in minutes
ResetWindow == 5

\* the last minute of the clock of the reset requests
MaxMinutes == 7

\* the n-th value crypto.randomBytes(20).toString("hex") yields for user u
TokenOf(u, n) == <<u, ToString(n)>>

\* authController.js lines 81-160: POST forgot-password for the email of
\* user u; getResetPasswordToken (proxy.js lines 251-265) sets the hashed
\* token and its expiry, user.save stores them; when the mail cannot be sent
\* both are cleared again
ForgotPassword(u, mailSent) ==
  /\ users[u].issued < MaxTokens
  /\ LET token == TokenOf(u, users[u].issued + 1)
     IN IF mailSent
        THEN /\ users' = [users EXCEPT ![u].resetPasswordToken = Sha256(token),
                                       ![u].resetPasswordExpire = now + ResetWindow,
                                       ![u].issued = @ + 1,
                                       ![u].password = SavedPassword(@, FALSE, "")]
             /\ resp' = Plain("forgot", 200, "Email sent")
        ELSE /\ users' = [users EXCEPT ![u].resetPasswordToken = None,
                                       ![u].resetPasswordExpire = 0,
                                       ![u].issued = @ + 1,
                                       ![u].password = SavedPassword(@, FALSE, "")]
             /\ resp' = Plain("forgot", 500, "Email could not be sent")
  /\ hashing' = PreSaveHashes(FALSE)
  /\ UNCHANGED <<posts, nextId, now, youtubeApiKey, inflight, reads, page, extracted,
                 imageCache, proxying, served, clicks, retry, rehost, outbound, toggling,
                 resetting>>

\* lines 174-183: User.findOne({resetPasswordToken, resetPasswordExpire: {$gt: Date.now()}})
\* with the sha256 digest of the token of the request
FindByToken(token) ==
  {u \in Users : /\ users[u].resetPasswordToken = Sha256(token)
                 /\ users[u].resetPasswordExpire > now}

\* lines 167-187: PUT reset-password up to the answer of User.findOne, for a
\* password the route's length check lets through
ResetFind(k, token, password) ==
  /\ resetting[k] = NoReset
  /\ IF FindByToken(token) = {}
     THEN /\ resp' = Plain("reset", 400, "Invalid or expired token")
          /\ UNCHANGED resetting
     ELSE /\ \E u \in FindByToken(token) :
               resetting' = [resetting EXCEPT ![k] =
                               [user |-> u, token |-> token, password |-> password]]
          /\ UNCHANGED resp
  /\ UNCHANGED <<storeVars, imageCache, proxying, served, clicks, retry, rehost, outbound,
                 toggling, hashing>>

\* lines 189-195: the password is set, the token fields are cleared and the
\* user document is saved
ResetSave(k) ==
  LET r == resetting[k]
  IN /\ r # NoReset
     /\ users' = [users EXCEPT ![r.user].password = SavedPassword(@, TRUE, r.password),
                               ![r.user].resetPasswordToken = None,
                               ![r.user].resetPasswordExpire = 0,
                               ![r.user].redeemed = @ \cup {r.token}]
     /\ hashing' = PreSaveHashes(TRUE)
     /\ resp' = Plain("reset", 200, "Password reset successful")
     /\ resetting' = [resetting EXCEPT ![k] = NoReset]
     /\ UNCHANGED <<posts, nextId, now, youtubeApiKey, inflight, reads, page, extracted,
                    imageCache, proxying, served, clicks, retry, rehost, outbound, toggling>>

\* a minute passes
Minute ==
  /\ now < MaxMinutes
  /\ now' = now + 1
  /\ UNCHANGED <<posts, nextId, users, youtubeApiKey, inflight, reads, resp, page, extracted,
                 auxVars>>

\* ------------------------------------------------------------------------
\* SpecReset: forgot-password and reset-password requests for one user on
\* both connections, while time passes
\* ------------------------------------------------------------------------
Passwords == {"secret1", "secret2"}
ResetTokens == {TokenOf("u1", n) : n \in 1..MaxTokens}

NextReset ==
  \/ \E sent \in BOOLEAN : ForgotPassword("u1", sent)
  \/ \E k \in Conns, token \in ResetTokens, password \in Passwords :
       ResetFind(k, token, password)
  \/ \E k \in Conns : ResetSave(k)
  \/ Minute

SpecReset == Init /\ [][NextReset]_vars

\* C28: a reset request is taken up only for a token that is stored and not
\* yet five minutes old; a reset completes only for a token that has not
\* completed a reset before; a reset request that is rejected leaves the
\* users as they were.
ResetTokenUsedOnce ==
  [][ /\ \A k \in Conns :
           (resetting[k] = NoReset /\ resetting'[k] # NoReset) =>
             /\ users[resetting'[k].user].resetPasswordToken = Sha256(resetting'[k].token)
             /\ now < users[resetting'[k].user].resetPasswordExpire
      /\ \A k \in Conns :
           (resetting[k] # NoReset /\ resetting'[k] = NoReset) =>
             resetting[k].token \notin users[resetting[k].user].redeemed
      /\ (resp'.op = "reset" /\ resp'.status = 400) => users' = users ]_vars

\* ------------------------------------------------------------------------
\* SpecSaves: the requests of one user that end in user.save(): platform
\* toggles, feed settings, forgot-password and reset-password
\* ------------------------------------------------------------------------
SavesPlatforms == {"youtube", "tiktok", ""}
SavesSettings == {<<"layout", "Highlight">>, <<"layout", "Collage2">>, <<"postsCount", "9">>,
                  <<"postsCount", "7">>}

NextSaves ==
  \/ \E p \in SavesPlatforms : TogglePlatform("u1", p)
  \/ \E in \in SavesSettings : FeedSettings("u1", in[1], in[2])
  \/ \E sent \in BOOLEAN : ForgotPassword("u1", sent)
  \/ \E token \in ResetTokens, password \in Passwords : ResetFind("k1", token, password)
  \/ ResetSave("k1")
  \/ Minute

SpecSaves == Init /\ [][NextSaves]_vars

\* the step saves a user document whose password the handler did not set
SavesUnmodifiedPassword ==
  /\ resp'.op \in {"toggle", "feed-settings", "forgot"}
  /\ users' # users

\* C30: on a save with an unmodified password (platform toggle, feed
\* settings, issue of a reset token) the pre-save hook does not execute its
\* hashing step and the stored password hash stays as it was.
UnmodifiedPasswordNotHashed ==
  [][SavesUnmodifiedPassword =>
       /\ ~hashing'
       /\ \A u \in Users : users'[u].password = users[u].password]_vars

\* ------------------------------------------------------------------------
\* SpecManage: both users delete, select, deselect and edit the posts of a
\* store that holds posts of both
\* ------------------------------------------------------------------------
ManageIds == 1..Cardinality(DetailsStore)
ManageUrls == {TtVideo, YtWatch}
ManagePlatforms == {"tiktok", "youtube"}
ManageLinks == {None, <<"text">>, <<"link">>}

NextManage ==
  \/ \E u \in Users, id \in ManageIds : DeletePost(u, id)
  \/ \E u \in Users, id \in ManageIds : SelectPost(u, id)
  \/ \E u \in Users, id \in ManageIds : DeselectPost(u, id)
  \/ \E u \in Users, id \in ManageIds, t \in Texts : UpdateDetails(u, id, t, t, t)
  \/ \E u \in Users, url \in ManageUrls, platform \in ManagePlatforms, link \in ManageLinks :
       ProductLink(u, url, platform, link)

SpecManage == InitDetails /\ [][NextManage]_vars

\* the posts of the users other than u are the same before and after the step
OthersUntouched(u) ==
  {p \in posts : p.user # u} = {p \in posts' : p.user # u}

\* the post with this id exists and belongs to a user other than u
OwnedByAnother(u, id) == \E p \in ById(id) : p.user # u

\* C21: a delete, deselect, update-details or product-link request of user A
\* leaves every post of the other users as it was, and when it names a post
\* that another user owns (for product-link: a url and platform under which A
\* holds no post) it answers 404.
OnlyOwnerEditsOrDeletes ==
  [][ /\ \A u \in Users, id \in ManageIds :
           (DeletePost(u, id) \/ DeselectPost(u, id)
              \/ \E t \in Texts : UpdateDetails(u, id, t, t, t)) =>
             /\ OthersUntouched(u)
             /\ OwnedByAnother(u, id) => (resp'.status = 404 /\ posts' = posts)
      /\ \A u \in Users, url \in ManageUrls, platform \in ManagePlatforms,
            link \in ManageLinks :
           ProductLink(u, url, platform, link) =>
             /\ OthersUntouched(u)
             /\ (Truthy(link) /\ ~\E p \in posts :
                    p.user = u /\ p.url = url /\ p.platform = platform) =>
                  (resp'.status = 404 /\ posts' = posts) ]_vars

\* u2 still holds its post, edited by u2 alone, after a request naming it was
\* answered 404 while u1 had already deleted one of its own
OnlyOwnerWitness ==
  /\ resp.status = 404
  /\ resp.op \in {"delete", "deselect", "update-details", "product-link"}
  /\ \E p \in posts : p.user = "u2" /\ p.id = 3
  /\ Cardinality({p \in posts : p.user = "u1"}) = 1

\* C22: a select request changes no post of a user other than the requester.
SelectOnlyByOwner ==
  [][ \A u \in Users, id \in ManageIds :
        SelectPost(u, id) => OthersUntouched(u) ]_vars

\* ------------------------------------------------------------------------
\* SpecRehost: the rehost of an extracted image on each import path, under
\* every answer of the download and of the upload capability
\* ------------------------------------------------------------------------
\* an image that is not on a Facebook host
OffSiteImg == <<"https://", "images", ".", "example", ".com", "/", "v", "/", "og.jpg">>

DownloadSizes == {-1, 999, 1000, 20000}
RehostOutcomes == [dl : DownloadSizes, up : BOOLEAN, dl2 : {-1, 999, 20000}, up2 : BOOLEAN]

\* Instagram, Facebook (CDN image, CDN image of a video share, image of another
\* host) and the TikTok thumbnail
RehostInputs ==
  { [NoRehost EXCEPT !.platform = in[1], !.imageUrl = in[2], !.isVideo = in[3],
                     !.ogImage = in[4], !.o = o] :
    in \in { <<"instagram", ImgContent, FALSE, None>>,
             <<"facebook", FbImg, FALSE, FbImg>>,
             <<"facebook", FbImg, TRUE, FbImg>>,
             <<"facebook", OffSiteImg, FALSE, OffSiteImg>>,
             <<"tiktok", TtCover, FALSE, None>> },
    o \in RehostOutcomes }

InitRehost ==
  /\ StoreInit({TRUE})
  /\ ProxyInit
  /\ clicks = {}
  /\ retry = NoRetry
  /\ outbound = FALSE
  /\ toggling = [k \in Conns |-> NoToggle]
  /\ resetting = [k \in Conns |-> NoReset]
  /\ hashing = FALSE
  /\ rehost \in RehostInputs

\* the rehost block of the platform's import handler
Rehost ==
  /\ ~rehost.done
  /\ rehost' =
       [rehost EXCEPT
          !.done = TRUE,
          !.result =
             CASE rehost.platform = "instagram" -> IgRehost(rehost.imageUrl, rehost.o)
               [] rehost.platform = "facebook" ->
                    FbRehost(rehost.imageUrl, rehost.isVideo, rehost.ogImage, rehost.o)
               [] rehost.platform = "tiktok" -> TtRehost(rehost.imageUrl, rehost.o),
          !.tiers =
             CASE rehost.platform = "instagram" -> IgTiers(rehost.o)
               [] rehost.platform = "facebook" ->
                    FbTiers(rehost.imageUrl, rehost.isVideo, rehost.ogImage, rehost.o)
               [] rehost.platform = "tiktok" -> TtTiers(rehost.imageUrl, rehost.o),
          !.uploaded =
             CASE rehost.platform = "instagram" -> IgUploaded(rehost.o)
               [] rehost.platform = "facebook" ->
                    FbUploaded(rehost.imageUrl, rehost.isVideo, rehost.ogImage, rehost.o)
               [] rehost.platform = "tiktok" -> TtUploaded(rehost.imageUrl, rehost.o)]
  /\ UNCHANGED <<storeVars, resp, imageCache, proxying, served, clicks, retry, outbound, toggling,
                 accountVars>>

NextRehost == Rehost

SpecRehost == InitRehost /\ [][NextRehost]_vars

\* C16: on every import path the rehost goes down the same ladder and stops at
\* the first tier that succeeds: the buffer upload, then the upload by remote
\* URL, then the original extracted URL, which is stored unmodified.
RehostFollowsLadder ==
  rehost.done =>
    /\ rehost.tiers \in {<<"buffer">>, <<"buffer", "url">>, <<"buffer", "url", "original">>}
    /\ rehost.result =
         (IF rehost.tiers[Len(rehost.tiers)] = "original" THEN rehost.imageUrl ELSE CloudUrl)

\* C17: on every rehost path no buffer shorter than 1000 bytes is handed to
\* the upload capability, and a download shorter than 1000 bytes is not
\* accepted by the first tier.
SmallBuffersNeverUploaded ==
  rehost.done =>
    /\ \A i \in 1..Len(rehost.uploaded) : rehost.uploaded[i] >= MinImageBytes
    /\ (DownloadOk(rehost.o.dl) /\ rehost.o.dl < MinImageBytes) => rehost.tiers # <<"buffer">>

\* ------------------------------------------------------------------------
\* SpecExtract: the Instagram extraction cascade over fetched pages
\* ------------------------------------------------------------------------
SharedWith(resources, display_url) ==
  [found |-> TRUE, where |-> "PostPage", resources |-> resources,
   display_url |-> display_url]
Resource(src, w, h) == [src |-> src, config_width |-> w, config_height |-> h]
Img(src, w, h) == [src |-> src, width |-> w, height |-> h]

\* pages whose tags, embedded JSON, script text and <img> elements carry a
\* post image, a profile picture, both or neither
ExtractPages ==
  { [fetched |-> TRUE,
     prop |-> [NoTags EXCEPT !["og:image:url"] = a, !["og:image"] = b, !["thumbnail"] = c],
     name |-> NoTags, shared |-> sh, rx |-> <<r, None, None, None>>, imgs |-> im] :
    a \in {None, ImgProfile}, b \in {None, ImgContent, ImgProfile},
    c \in {None, ImgThumb, ImgContent},
    sh \in {NoShared, SharedWith(<< >>, ImgContent),
            SharedWith(<<Resource(ImgProfile, 150, 150), Resource(ImgContent, 1080, 1080)>>,
                       None)},
    r \in {None, ImgContent, ImgProfile},
    im \in {<< >>, <<Img(ImgProfile, 150, 150)>>,
            <<Img(ImgProfile, 150, 150), Img(ImgContent, 640, 640)>>} }

InitExtract ==
  /\ posts = {}
  /\ nextId = 1
  /\ now = 0
  /\ users = [u \in Users |-> NewUser]
  /\ youtubeApiKey = TRUE
  /\ inflight = [k \in Conns |-> Idle]
  /\ reads = [k \in Conns |-> NoRead]
  /\ resp = NoResp
  /\ page \in ExtractPages
  /\ extracted = NotExtracted
  /\ AuxInit

\* lines 578-1130 applied to the fetched page
Extract ==
  /\ extracted = NotExtracted
  /\ extracted' = IgExtract(page)
  /\ UNCHANGED <<posts, nextId, now, users, youtubeApiKey, inflight, reads, resp, page, auxVars>>

NextExtract == Extract

SpecExtract == InitExtract /\ [][NextExtract]_vars

\* what each strategy yields when run on the page on its own
StrategyOutputs(pg) ==
  {IgMetaStrategy(pg).imageUrl, IgJsonStrategy(pg).imageUrl, IgRegexStrategy(pg).imageUrl}
    \cup {IgCandidateImages(pg)[i].src : i \in 1..Len(IgCandidateImages(pg))}

\* C8: if a strategy yields a candidate that matches no profile-picture
\* pattern, the image the import selects matches no profile-picture pattern.
NoProfileWhenContentExists ==
  (/\ extracted # NotExtracted
   /\ \E u \in StrategyOutputs(page) : Truthy(u) /\ ~HasProfilePattern(u))
    => ~HasProfilePattern(extracted.imageUrl)

====
